---- MODULE Spec2Model ----
(***************************************************************************)
(* ContractML: the contract registry (ContractRegistry.load behind the     *)
(* timed_cache decorator, clear_cache) run by concurrent request threads,  *)
(* and the migration engine (MigrationEngine.migrate).                     *)
(*                                                                         *)
(* Version strings are tuples of one-character strings, so that            *)
(* str.replace('v', '') and packaging.version.parse act on their text.     *)
(***************************************************************************)
EXTENDS Integers, Sequences, FiniteSets, TLC

VARIABLES
    schemas,    \* the schema documents on disk: <<domain, version>> pairs
    scripts,    \* the migration scripts on disk: <<domain, from, to>> -> kind
    lru,        \* timed_cache's LRUCache.cache (OrderedDict), oldest first
    contracts,  \* ContractRegistry._contracts: domain -> version -> Contract
    heap,       \* every DynamicContract constructed so far, by identity
    clock,      \* time.time(), in seconds
    ticks,      \* how many times the clock has advanced
    cleared,    \* per thread: clear_cache() has run since its call began
    clearMark,  \* Len(heap) when clear_cache() last ran
    pc,         \* per thread: where it stands in ContractRegistry.load
    arg,        \* per thread: the <<domain, version>> of its current call
    local,      \* per thread: the Contract it holds (`result` / `contract`)
    started,    \* per thread: the clock when its current call began
    ret,        \* per thread: what its last finished call returned or raised
    calls,      \* how many load() calls have been made
    mig         \* the engine call under study: its inputs and its outcome

vars == <<schemas, scripts, lru, contracts, heap, clock, ticks, cleared,
          clearMark, pc, arg, local, started, ret, calls, mig>>

files == <<schemas, scripts>>

----------------------------------------------------------------------------
(* Bounds of the model *)

MaxBuilds == 2
MaxTicks == 1
MaxCalls == 2

(* Program constants *)

\* settings.model_cache_size (CONTRACTML_MODEL_CACHE_SIZE); the default is
\* 100, the model runs the registry configured with a capacity of 1.
ModelCacheSize == 1
\* @timed_cache(..., ttl=600) on ContractRegistry.load
RegistryTTL == 600

\* The request threads that run ContractRegistry.load concurrently.
Threads == {"t1", "t2"}
\* Python's None; an optional value x is held as <<x>>.
None == <<>>
NoResult == [kind |-> "none"]
NoRun == [op |-> "none"]

V1 == <<"v", "1">>
V2 == <<"v", "2">>
V3 == <<"v", "3">>
V1_0 == <<"v", "1", ".", "0">>
Beta == <<"b", "e", "t", "a">>

\* The keys the request threads load, and the schema documents the registry
\* runs against: fraud/v1 has none.
RegKeys == {<<"telemetry", V1>>, <<"telemetry", V2>>, <<"fraud", V1>>}
RegistrySchemas == {<<"telemetry", V1>>, <<"telemetry", V2>>}
\* The schema documents that name an inference model ("ml_model")
ModelSchemas == {<<"telemetry", V2>>}
\* How far one step of the clock may move it.
TimeSteps == {RegistryTTL, RegistryTTL + 1}

----------------------------------------------------------------------------
(* Python dicts as functions *)

EmptyDict == [x \in {} |-> None]

DictSet(d, k, v) == [x \in (DOMAIN d) \cup {k} |-> IF x = k THEN v ELSE d[x]]

----------------------------------------------------------------------------
(* app/performance.py: CacheEntry and LRUCache *)

\* An entry that never expires
NeverExpired(entry, now) == FALSE

\* CacheEntry.is_expired at time now
IsExpired(entry, now) == now - entry.timestamp > entry.ttl

IndexOfKey(cache, key) ==
    IF \E i \in 1..Len(cache) : cache[i].key = key
    THEN CHOOSE i \in 1..Len(cache) : cache[i].key = key
    ELSE 0

RemoveAt(cache, i) ==
    [j \in 1..(Len(cache) - 1) |-> IF j < i THEN cache[j] ELSE cache[j + 1]]

\* LRUCache.get: the cache afterwards and the value returned (None on a
\* miss or on an expired entry, which is deleted).
LRUGet(cache, key, now) ==
    LET i == IndexOfKey(cache, key) IN
    IF i = 0 THEN [cache |-> cache, value |-> None]
    ELSE IF IsExpired(cache[i], now)
         THEN [cache |-> RemoveAt(cache, i), value |-> None]
         ELSE [cache |-> Append(RemoveAt(cache, i), cache[i]),
               value |-> <<cache[i].value>>]

\* A put that makes room by removing the newest entry
LRUPutEvictNewest(cache, key, value, now, max_size, default_ttl) ==
    LET i == IndexOfKey(cache, key)
        kept == IF i # 0 THEN RemoveAt(cache, i)
                ELSE IF Len(cache) >= max_size THEN RemoveAt(cache, Len(cache))
                ELSE cache
    IN Append(kept, [key |-> key, value |-> value,
                     timestamp |-> now, ttl |-> default_ttl])

\* LRUCache.put with ttl=None: `ttl or self.default_ttl` is default_ttl.
LRUPut(cache, key, value, now, max_size, default_ttl) ==
    LET i == IndexOfKey(cache, key)
        kept == IF i # 0 THEN RemoveAt(cache, i)
                ELSE IF Len(cache) >= max_size THEN Tail(cache)
                ELSE cache
    IN Append(kept, [key |-> key, value |-> value,
                     timestamp |-> now, ttl |-> default_ttl])

\* timed_cache's key, f"{func.__name__}:{hash(str(args) + str(sorted(kwargs)))}":
\* every caller passes (cls, domain, version) positionally; the hash is kept
\* symbolic (distinct argument texts give distinct keys).
CacheKey(k) == <<"load", k[1], k[2]>>

----------------------------------------------------------------------------
(* app/contracts/loader.py and app/contracts/errors.py *)

\* ContractLoader.load: schema_path.exists()
LoaderLoad(fs, k) ==
    IF k \in fs THEN [ok |-> TRUE, config |-> k]
    ELSE [ok |-> FALSE, exc |-> "FileNotFoundError"]

ContractNotFoundError(k) ==
    [kind |-> "error", type |-> "ContractNotFoundError",
     domain |-> k[1], version |-> k[2]]

PropagateLoaderError(k, exc) ==
    [kind |-> "error", type |-> exc, domain |-> k[1], version |-> k[2]]

\* Without the except clause the loader's exception escapes as it is.
LoadFailureUncaught(k, exc) == PropagateLoaderError(k, exc)

\* ContractRegistry.load's `except FileNotFoundError: raise ContractNotFoundError`
LoadFailure(k, exc) ==
    IF exc = "FileNotFoundError" THEN ContractNotFoundError(k)
    ELSE PropagateLoaderError(k, exc)

KeyError == [kind |-> "error", type |-> "KeyError"]

ModelLoadError == [kind |-> "error", type |-> "ModelLoadError"]

Returned(c) == [kind |-> "contract", inst |-> c]

----------------------------------------------------------------------------
(* ContractRegistry.load, wrapped by timed_cache, one step per access to   *)
(* the shared caches; threads interleave between the steps.                *)

Finish(t, result) ==
    /\ ret' = [ret EXCEPT ![t] = result]
    /\ pc' = [pc EXCEPT ![t] = "idle"]
    /\ local' = [local EXCEPT ![t] = None]

\* A wrapper that keeps the cache lock from its lookup to its put: a call
\* begins only when no other call is between the two.
WrapperGetLocked(t, k) ==
    /\ \A u \in Threads \ {t} : pc[u] = "idle"
    /\ pc[t] = "idle"
    /\ calls < MaxCalls
    /\ calls' = calls + 1
    /\ arg' = [arg EXCEPT ![t] = k]
    /\ started' = [started EXCEPT ![t] = <<clock>>]
    /\ cleared' = [cleared EXCEPT ![t] = FALSE]
    /\ LET g == LRUGet(lru, CacheKey(k), clock) IN
       /\ lru' = g.cache
       /\ IF g.value # None
          THEN Finish(t, Returned(g.value[1]))
          ELSE /\ pc' = [pc EXCEPT ![t] = "check"]
               /\ ret' = [ret EXCEPT ![t] = NoResult]
               /\ UNCHANGED local
    /\ UNCHANGED <<files, mig, contracts, heap, clock, ticks, clearMark>>

\* A request thread calls ContractRegistry.load(domain, version) and runs the
\* wrapper up to its cache lookup:
\*   result = cache.get(key); if result is not None: return result
WrapperGet(t, k) ==
    /\ pc[t] = "idle"
    /\ calls < MaxCalls
    /\ calls' = calls + 1
    /\ arg' = [arg EXCEPT ![t] = k]
    /\ started' = [started EXCEPT ![t] = <<clock>>]
    /\ cleared' = [cleared EXCEPT ![t] = FALSE]
    /\ LET g == LRUGet(lru, CacheKey(k), clock) IN
       /\ lru' = g.cache
       /\ IF g.value # None
          THEN Finish(t, Returned(g.value[1]))
          ELSE /\ pc' = [pc EXCEPT ![t] = "check"]
               /\ ret' = [ret EXCEPT ![t] = NoResult]
               /\ UNCHANGED local
    /\ UNCHANGED <<files, mig, contracts, heap, clock, ticks, clearMark>>

\* load: if domain in cls._contracts and version in cls._contracts[domain]
LoadCheck(t) ==
    /\ pc[t] = "check"
    /\ LET d == arg[t][1]
           v == arg[t][2] IN
       IF d \in DOMAIN contracts /\ v \in DOMAIN contracts[d]
       THEN pc' = [pc EXCEPT ![t] = "read"]
       ELSE pc' = [pc EXCEPT ![t] = "construct"]
    /\ UNCHANGED <<files, mig, calls, lru, contracts, heap, clock, ticks,
                   cleared, clearMark, arg, local, started, ret>>

\* load: return cls._contracts[domain][version]
LoadRead(t) ==
    /\ pc[t] = "read"
    /\ LET d == arg[t][1]
           v == arg[t][2] IN
       IF d \in DOMAIN contracts /\ v \in DOMAIN contracts[d]
       THEN /\ local' = [local EXCEPT ![t] = <<contracts[d][v]>>]
            /\ pc' = [pc EXCEPT ![t] = "wrapper_put"]
            /\ UNCHANGED ret
       ELSE Finish(t, KeyError)
    /\ UNCHANGED <<files, mig, calls, lru, contracts, heap, clock, ticks,
                   cleared, clearMark, arg, started>>

\* A load whose failure is remembered: the wrapper stores the absent result
\* of a failed call under its key.
LoadConstructCachingFailure(t) ==
    /\ pc[t] = "construct"
    /\ LET r == LoaderLoad(schemas, arg[t]) IN
       IF r.ok
       THEN /\ Len(heap) < MaxBuilds
            /\ heap' = Append(heap, [key |-> arg[t], cachedAt |-> None])
            /\ local' = [local EXCEPT ![t] = <<Len(heap) + 1>>]
            /\ pc' = [pc EXCEPT ![t] = "install_domain"]
            /\ UNCHANGED <<ret, lru>>
       ELSE /\ Finish(t, LoadFailure(arg[t], r.exc))
            /\ lru' = LRUPut(lru, CacheKey(arg[t]), 0, clock, ModelCacheSize,
                             RegistryTTL)
            /\ UNCHANGED heap
    /\ UNCHANGED <<files, mig, calls, contracts, clock, ticks, cleared,
                   clearMark, arg, started>>

\* load: config = ContractLoader.load(domain, version), raising
\* ContractNotFoundError when it has no schema document; else
\* contract = DynamicContract(domain, version, config), which raises
\* ModelLoadError when the document names an inference model that cannot be
\* loaded at that moment. The construction touches no shared state: it is one
\* step, taken by a thread that stands at "construct" for as long as the
\* construction lasts.
LoadConstruct(t) ==
    /\ pc[t] = "construct"
    /\ LET r == LoaderLoad(schemas, arg[t]) IN
       IF r.ok
       THEN \E loadable \in IF arg[t] \in ModelSchemas THEN BOOLEAN ELSE {TRUE} :
               IF loadable
               THEN /\ Len(heap) < MaxBuilds
                    /\ heap' = Append(heap, [key |-> arg[t], cachedAt |-> None])
                    /\ local' = [local EXCEPT ![t] = <<Len(heap) + 1>>]
                    /\ pc' = [pc EXCEPT ![t] = "install_domain"]
                    /\ UNCHANGED ret
               ELSE /\ Finish(t, ModelLoadError)
                    /\ UNCHANGED heap
       ELSE /\ Finish(t, LoadFailure(arg[t], r.exc))
            /\ UNCHANGED heap
    /\ UNCHANGED <<files, mig, calls, lru, contracts, clock, ticks, cleared,
                   clearMark, arg, started>>

\* load: if domain not in cls._contracts:
LoadInstallCheck(t) ==
    /\ pc[t] = "install_domain"
    /\ IF arg[t][1] \notin DOMAIN contracts
       THEN pc' = [pc EXCEPT ![t] = "install_new"]
       ELSE pc' = [pc EXCEPT ![t] = "install"]
    /\ UNCHANGED <<files, mig, calls, lru, contracts, heap, clock, ticks,
                   cleared, clearMark, arg, local, started, ret>>

\* load: cls._contracts[domain] = {}
LoadInstallNew(t) ==
    /\ pc[t] = "install_new"
    /\ contracts' = DictSet(contracts, arg[t][1], EmptyDict)
    /\ pc' = [pc EXCEPT ![t] = "install"]
    /\ UNCHANGED <<files, mig, calls, lru, heap, clock, ticks, cleared,
                   clearMark, arg, local, started, ret>>

\* load: cls._contracts[domain][version] = contract
LoadInstall(t) ==
    /\ pc[t] = "install"
    /\ LET d == arg[t][1]
           v == arg[t][2] IN
       IF d \in DOMAIN contracts
       THEN /\ contracts' = DictSet(contracts, d, DictSet(contracts[d], v, local[t][1]))
            /\ pc' = [pc EXCEPT ![t] = "wrapper_put"]
            /\ UNCHANGED <<ret, local>>
       ELSE /\ Finish(t, KeyError)
            /\ UNCHANGED contracts
    /\ UNCHANGED <<files, mig, calls, lru, heap, clock, ticks, cleared,
                   clearMark, arg, started>>

\* wrapper: cache.put(key, result); return result
WrapperPut(t) ==
    /\ pc[t] = "wrapper_put"
    /\ lru' = LRUPut(lru, CacheKey(arg[t]), local[t][1], clock,
                     ModelCacheSize, RegistryTTL)
    /\ heap' = [heap EXCEPT ![local[t][1]].cachedAt =
                   IF @ = None THEN <<clock>> ELSE @]
    /\ Finish(t, Returned(local[t][1]))
    /\ UNCHANGED <<files, mig, calls, contracts, clock, ticks, cleared,
                   clearMark, arg, started>>

\* ContractRegistry.clear_cache(): cls._contracts.clear()
ClearCache ==
    /\ contracts' = EmptyDict
    /\ cleared' = [t \in Threads |-> TRUE]
    /\ clearMark' = Len(heap)
    /\ UNCHANGED <<files, mig, calls, lru, heap, clock, ticks, pc, arg, local,
                   started, ret>>

\* Time passes.
Advance(d) ==
    /\ ticks < MaxTicks
    /\ clock' = clock + d
    /\ ticks' = ticks + 1
    /\ UNCHANGED <<files, mig, calls, lru, contracts, heap, cleared,
                   clearMark, pc, arg, local, started, ret>>

RegInit ==
    /\ lru = <<>>
    /\ contracts = EmptyDict
    /\ heap = <<>>
    /\ clock = 0
    /\ ticks = 0
    /\ cleared = [t \in Threads |-> FALSE]
    /\ clearMark = 0
    /\ pc = [t \in Threads |-> "idle"]
    /\ arg = [t \in Threads |-> None]
    /\ local = [t \in Threads |-> None]
    /\ started = [t \in Threads |-> None]
    /\ ret = [t \in Threads |-> NoResult]
    /\ calls = 0

Init ==
    /\ schemas = RegistrySchemas
    /\ scripts = EmptyDict
    /\ mig = NoRun
    /\ RegInit

Next ==
    \/ \E t \in Threads, k \in RegKeys : WrapperGet(t, k)
    \/ \E t \in Threads : LoadCheck(t)
    \/ \E t \in Threads : LoadRead(t)
    \/ \E t \in Threads : LoadConstruct(t)
    \/ \E t \in Threads : LoadInstallCheck(t)
    \/ \E t \in Threads : LoadInstallNew(t)
    \/ \E t \in Threads : LoadInstall(t)
    \/ \E t \in Threads : WrapperPut(t)
    \/ ClearCache
    \/ \E d \in TimeSteps : Advance(d)

Spec == Init /\ [][Next]_vars

----------------------------------------------------------------------------
(* app/contracts/migration.py: version texts *)

Digits == {"0", "1", "2", "3", "4", "5", "6", "7", "8", "9"}

DigitVal(c) ==
    CASE c = "0" -> 0 [] c = "1" -> 1 [] c = "2" -> 2 [] c = "3" -> 3
      [] c = "4" -> 4 [] c = "5" -> 5 [] c = "6" -> 6 [] c = "7" -> 7
      [] c = "8" -> 8 [] c = "9" -> 9

\* v.replace('v', ''): every 'v' of the text is removed
StripV(text) == SelectSeq(text, LAMBDA c : c # "v")

RECURSIVE SplitDots(_)
SplitDots(text) ==
    IF \E i \in 1..Len(text) : text[i] = "."
    THEN LET i == CHOOSE j \in 1..Len(text) :
                      text[j] = "." /\ \A h \in 1..(j - 1) : text[h] # "."
         IN <<SubSeq(text, 1, i - 1)>> \o SplitDots(SubSeq(text, i + 1, Len(text)))
    ELSE <<text>>

IsNumber(part) == Len(part) > 0 /\ \A i \in 1..Len(part) : part[i] \in Digits

RECURSIVE NumVal(_)
NumVal(part) ==
    IF part = <<>> THEN 0
    ELSE NumVal(SubSeq(part, 1, Len(part) - 1)) * 10 + DigitVal(part[Len(part)])

RECURSIVE TrimZeros(_)
TrimZeros(release) ==
    IF release # <<>> /\ release[Len(release)] = 0
    THEN TrimZeros(SubSeq(release, 1, Len(release) - 1))
    ELSE release

\* packaging.version.parse on a text of digits and dots: the release tuple
\* as Version compares it (trailing zeros dropped), or None for a text that
\* is no version (parse raises InvalidVersion). The modelled texts hold no
\* epoch, pre-, post-, dev- or local part.
ParseVersion(text) ==
    LET parts == SplitDots(text) IN
    IF \A i \in 1..Len(parts) : IsNumber(parts[i])
    THEN <<TrimZeros([i \in 1..Len(parts) |-> NumVal(parts[i])])>>
    ELSE None

\* Version.__lt__: the release tuples compared as Python tuples
ReleaseLess(a, b) ==
    \/ \E i \in 1..Len(a) :
          /\ i <= Len(b)
          /\ a[i] < b[i]
          /\ \A h \in 1..(i - 1) : a[h] = b[h]
    \/ /\ Len(a) < Len(b)
       /\ \A h \in 1..Len(a) : a[h] = b[h]

\* needs_migration that asks only whether the versions differ
NeedsMigrationAnyChange(from_version, to_version) == from_version # to_version

\* MigrationEngine.needs_migration: parse both, compare; on any exception
\* `return from_version != to_version`.
NeedsMigration(from_version, to_version) ==
    LET a == ParseVersion(StripV(from_version))
        b == ParseVersion(StripV(to_version))
    IN IF a = None \/ b = None
       THEN from_version # to_version
       ELSE ReleaseLess(a[1], b[1])

\* The key of list.sort in get_available_versions
VersionKey(v) == ParseVersion(StripV(v))[1]

\* list.sort(key=...) is stable: an element goes behind every element whose
\* key is not greater than its own, so elements of equal key keep the order
\* they had in the list.
RECURSIVE SortVersions(_)
SortVersions(versions) ==
    IF versions = <<>> THEN <<>>
    ELSE LET x == versions[Len(versions)]
             sorted == SortVersions(SubSeq(versions, 1, Len(versions) - 1))
             n == Cardinality({i \in 1..Len(sorted) :
                                 ~ReleaseLess(VersionKey(x), VersionKey(sorted[i]))})
         IN SubSeq(sorted, 1, n) \o <<x>> \o SubSeq(sorted, n + 1, Len(sorted))

\* get_available_versions that reports each version as its sort key reads
\* it, without the letter v
GetAvailableVersionsStripped(fs, domain) ==
    LET found == SelectSeq(fs, LAMBDA k : k[1] = domain)
        versions == [i \in 1..Len(found) |-> StripV(found[i][2])]
    IN IF \E i \in 1..Len(versions) : ParseVersion(versions[i]) = None
       THEN [raised |-> TRUE, versions |-> <<>>]
       ELSE [raised |-> FALSE, versions |-> SortVersions(versions)]

\* MigrationEngine.get_available_versions: the stems of schemas/<domain>/*.yaml
\* (Path("schemas"), the default settings.schemas_path) in the order glob
\* yields them, then sorted by parsed version. fs is the schema files in the
\* order the directory yields them. The sort key raises InvalidVersion on a
\* stem that is no version.
GetAvailableVersions(fs, domain) ==
    LET found == SelectSeq(fs, LAMBDA k : k[1] = domain)
        versions == [i \in 1..Len(found) |-> found[i][2]]
    IN IF \E i \in 1..Len(versions) : ParseVersion(StripV(versions[i])) = None
       THEN [raised |-> TRUE, versions |-> <<>>]
       ELSE [raised |-> FALSE, versions |-> SortVersions(versions)]

\* get_latest_version that returns the first version of the list
GetOldestVersion(fs, domain) ==
    LET av == GetAvailableVersions(fs, domain) IN
    IF av.raised THEN [raised |-> TRUE, version |-> None]
    ELSE [raised |-> FALSE,
          version |-> IF av.versions = <<>> THEN None ELSE <<av.versions[1]>>]

\* MigrationEngine.get_latest_version: versions[-1] if versions else None
GetLatestVersion(fs, domain) ==
    LET av == GetAvailableVersions(fs, domain) IN
    IF av.raised THEN [raised |-> TRUE, version |-> None]
    ELSE [raised |-> FALSE,
          version |-> IF av.versions = <<>> THEN None
                      ELSE <<av.versions[Len(av.versions)]>>]

\* list.index, 0 standing for ValueError
IndexOf(seq, x) ==
    IF \E i \in 1..Len(seq) : seq[i] = x
    THEN CHOOSE i \in 1..Len(seq) : seq[i] = x /\ \A h \in 1..(i - 1) : seq[h] # x
    ELSE 0

----------------------------------------------------------------------------
(* app/contracts/migration.py: migrate.                                    *)
(*                                                                         *)
(* A payload is the sequence of the transforms it has been through. A run  *)
(* of migrate carries `input`, the content of the caller's dict (a script  *)
(* may change it in place), and `executed`, the scripts run so far. A      *)
(* reference to a dict is [isInput, content]: whether it is the caller's   *)
(* dict, and what it holds.                                                *)

\* migrations/{domain}_{from_version}_to_{to_version}.py
ScriptPath(domain, from_version, to_version) == <<domain, from_version, to_version>>

Transformed(content, path) == Append(content, <<path[2], path[3]>>)

\* _execute_migration_script under _try_direct_migration's try/except:
\* a "pure" script builds a new dict (as migrations/telemetry_v1_to_v2.py
\* does), an "inplace" script changes the dict it is given and returns it,
\* a "raises" script raises or has no migrate function: the exception is
\* caught and logged.
ExecuteScript(run, cur, path, kind) ==
    LET ran == [run EXCEPT !.executed = Append(@, path)] IN
    CASE kind = "pure" ->
            [run |-> ran,
             out |-> <<[isInput |-> FALSE,
                        content |-> Transformed(cur.content, path)]>>]
      [] kind = "inplace" ->
            [run |-> IF cur.isInput
                     THEN [ran EXCEPT !.input = Transformed(cur.content, path)]
                     ELSE ran,
             out |-> <<[cur EXCEPT !.content = Transformed(cur.content, path)]>>]
      [] kind = "raises" ->
            [run |-> ran, out |-> None]

\* MigrationEngine._try_direct_migration
TryDirectMigration(sc, run, cur, from_version, to_version, domain) ==
    LET path == ScriptPath(domain, from_version, to_version) IN
    IF path \in DOMAIN sc
    THEN ExecuteScript(run, cur, path, sc[path])
    ELSE [run |-> run, out |-> None]

\* A stepwise loop that returns after its first hop
StepLoopOneHop(sc, run, cur, available, i, to_idx, domain) ==
    IF i >= to_idx THEN [run |-> run, out |-> <<cur>>, raised |-> None]
    ELSE LET r == TryDirectMigration(sc, run, cur, available[i],
                                     available[i + 1], domain)
         IN [run |-> r.run, out |-> r.out, raised |-> None]

\* The loop of _try_step_migration from index i (of current_version) to to_idx
RECURSIVE StepLoop(_, _, _, _, _, _, _)
StepLoop(sc, run, cur, available, i, to_idx, domain) ==
    IF i >= to_idx THEN [run |-> run, out |-> <<cur>>, raised |-> None]
    ELSE LET r == TryDirectMigration(sc, run, cur, available[i],
                                     available[i + 1], domain)
         IN IF r.out = None
            THEN [run |-> r.run, out |-> None, raised |-> None]
            ELSE StepLoop(sc, r.run, r.out[1], available, i + 1, to_idx, domain)

\* MigrationEngine._try_step_migration. current_version starts as
\* from_version, which is available_versions[from_idx].
TryStepMigration(fs, sc, run, cur, from_version, to_version, domain) ==
    LET av == GetAvailableVersions(fs, domain) IN
    IF av.raised
    THEN [run |-> run, out |-> None, raised |-> <<"InvalidVersion">>]
    ELSE LET from_idx == IndexOf(av.versions, from_version)
             to_idx == IndexOf(av.versions, to_version)
         IN IF from_idx = 0 \/ to_idx = 0
            THEN [run |-> run, out |-> None, raised |-> None]
            ELSE IF from_idx >= to_idx
            THEN [run |-> run, out |-> None, raised |-> None]
            ELSE StepLoop(sc, run, cur, av.versions, from_idx, to_idx, domain)

\* What a finished migrate call leaves: what it returned (or raised), whether
\* the dict returned is the caller's own, the caller's dict afterwards, and
\* the scripts it executed.
Outcome(run, ref, raised) ==
    [returned |-> raised = None,
     raised |-> raised,
     sameObject |-> raised = None /\ ref.isInput,
     value |-> IF raised # None THEN <<>>
               ELSE IF ref.isInput THEN run.input ELSE ref.content,
     input |-> run.input,
     executed |-> run.executed]

\* migrate that tries the stepwise path before the direct script
MigrateForwardStepFirst(fs, sc, run, data, from_version, to_version, domain) ==
    LET step == TryStepMigration(fs, sc, run, data, from_version, to_version, domain) IN
    IF step.raised # None THEN Outcome(step.run, data, step.raised)
    ELSE IF step.out # None THEN Outcome(step.run, step.out[1], None)
    ELSE LET direct == TryDirectMigration(sc, step.run, data, from_version,
                                          to_version, domain)
         IN IF direct.out # None THEN Outcome(direct.run, direct.out[1], None)
            ELSE Outcome(direct.run, data, None)

\* What a script raises
ScriptError == <<"ScriptError">>

\* migrate whose direct attempt lets the script's exception through
MigrateForwardNoCatch(fs, sc, run, data, from_version, to_version, domain) ==
    LET path == ScriptPath(domain, from_version, to_version)
        direct == TryDirectMigration(sc, run, data, from_version, to_version, domain)
    IN IF path \in DOMAIN sc /\ sc[path] = "raises"
       THEN Outcome(direct.run, data, ScriptError)
       ELSE IF direct.out # None
       THEN Outcome(direct.run, direct.out[1], None)
       ELSE LET step == TryStepMigration(fs, sc, direct.run, data, from_version,
                                         to_version, domain)
            IN IF step.raised # None THEN Outcome(step.run, data, step.raised)
               ELSE IF step.out = None THEN Outcome(step.run, data, None)
               ELSE Outcome(step.run, step.out[1], None)

\* migrate, from "Try direct migration" on
MigrateForward(fs, sc, run, data, from_version, to_version, domain) ==
    LET direct == TryDirectMigration(sc, run, data, from_version, to_version, domain) IN
    IF direct.out # None
    THEN Outcome(direct.run, direct.out[1], None)
    ELSE LET step == TryStepMigration(fs, sc, direct.run, data, from_version,
                                      to_version, domain)
         IN IF step.raised # None THEN Outcome(step.run, data, step.raised)
            ELSE IF step.out = None THEN Outcome(step.run, data, None)
            ELSE Outcome(step.run, step.out[1], None)

\* migrate without its two early returns
MigrateUnguarded(fs, sc, content, from_version, to_version, domain) ==
    MigrateForward(fs, sc, [input |-> content, executed |-> <<>>],
                   [isInput |-> TRUE, content |-> content],
                   from_version, to_version, domain)

\* MigrationEngine.migrate(data, from_version, to_version, domain) on the
\* schema files fs (in directory order) and the script files sc
Migrate(fs, sc, content, from_version, to_version, domain) ==
    LET run == [input |-> content, executed |-> <<>>]
        data == [isInput |-> TRUE, content |-> content]
    IN IF from_version = to_version THEN Outcome(run, data, None)
       ELSE IF ~NeedsMigration(from_version, to_version)
       THEN Outcome(run, data, None)
       ELSE MigrateForward(fs, sc, run, data, from_version, to_version, domain)

----------------------------------------------------------------------------
(* The migration engine on its own: any schema directory and any script    *)
(* directory over the modelled versions, then calls of migrate.            *)

MigDomain == "telemetry"
\* Stems a schema directory may hold, and version arguments of migrate
SchemaStems == {V1, V2, V3, Beta}
\* A directory with two stems that are the same version
TieStems == {V1, V1_0, V2}
MigVersions == {V1, V2, V3, V1_0, Beta}
Payloads == {<<>>, <<"temperature">>}
\* Script files that may exist: the hops and the shortcut of v1 -> v2 -> v3,
\* of any kind, and well-behaved scripts for a downgrade, for a version to
\* itself and from a stem that is no version.
ChainScripts == {<<MigDomain, V1, V2>>, <<MigDomain, V2, V3>>, <<MigDomain, V1, V3>>}
OtherScripts == {<<MigDomain, V2, V1>>, <<MigDomain, V1, V1>>, <<MigDomain, Beta, V2>>}
ScriptKinds == {"pure", "inplace", "raises"}

ScriptDirs ==
    UNION {{[p \in DOMAIN c \cup other |->
                IF p \in DOMAIN c THEN c[p] ELSE "pure"] :
              c \in UNION {[chain -> ScriptKinds] : chain \in SUBSET ChainScripts}} :
           other \in SUBSET OtherScripts}

SchemaDirs ==
    {{<<MigDomain, v>> : v \in stems} : stems \in (SUBSET SchemaStems) \cup {TieStems}}

\* Path.glob yields the files of a directory in an order the file system
\* decides: the model runs with one order and with its reverse.
DirOrder ==
    <<<<MigDomain, V1>>, <<MigDomain, V1_0>>, <<MigDomain, V2>>,
      <<MigDomain, V3>>, <<MigDomain, Beta>>>>

Reverse(seq) == [i \in 1..Len(seq) |-> seq[Len(seq) + 1 - i]]

DirOrders == {DirOrder, Reverse(DirOrder)}

\* The files of dir as the directory yields them
Listing(dir, order) == SelectSeq(order, LAMBDA k : k \in dir)

\* One call of migrate per behaviour. `available` keeps the version ordering
\* of the domain as the engine computes it during the call.
DoMigrate(content, from_version, to_version, order) ==
    /\ mig = NoRun
    /\ mig' = [op |-> "migrate", data |-> content, from |-> from_version,
               to |-> to_version, domain |-> MigDomain,
               available |-> GetAvailableVersions(Listing(schemas, order), MigDomain)]
              @@ Migrate(Listing(schemas, order), scripts, content,
                         from_version, to_version, MigDomain)
    /\ UNCHANGED <<files, calls, lru, contracts, heap, clock, ticks, cleared,
                   clearMark, pc, arg, local, started, ret>>

MigInit ==
    /\ schemas \in SchemaDirs
    /\ scripts \in ScriptDirs
    /\ mig = NoRun
    /\ RegInit

MigNext ==
    \E content \in Payloads, f \in MigVersions, t \in MigVersions, order \in DirOrders :
        DoMigrate(content, f, t, order)

SpecMig == MigInit /\ [][MigNext]_vars

----------------------------------------------------------------------------
(* The version operations of the engine on their own: any schema directory *)
(* over the modelled stems, read in either directory order.                *)

V10 == <<"v", "1", "0">>
VerStems == {V1, V1_0, V2, V3, Beta}
VerVersions == {V1, V1_0, V2, V3, V10, Beta}

\* MigrationEngine.get_available_versions(domain)
DoGetAvailableVersions(order) ==
    /\ mig' = [op |-> "versions", domain |-> MigDomain,
               result |-> GetAvailableVersions(Listing(schemas, order), MigDomain)]
    /\ UNCHANGED <<files, calls, lru, contracts, heap, clock, ticks, cleared,
                   clearMark, pc, arg, local, started, ret>>

\* MigrationEngine.get_latest_version(domain)
DoGetLatestVersion(order) ==
    /\ mig' = [op |-> "latest", domain |-> MigDomain,
               result |-> GetLatestVersion(Listing(schemas, order), MigDomain)]
    /\ UNCHANGED <<files, calls, lru, contracts, heap, clock, ticks, cleared,
                   clearMark, pc, arg, local, started, ret>>

\* MigrationEngine.needs_migration(from_version, to_version)
DoNeedsMigration(from_version, to_version) ==
    /\ mig' = [op |-> "needs", from |-> from_version, to |-> to_version,
               result |-> NeedsMigration(from_version, to_version)]
    /\ UNCHANGED <<files, calls, lru, contracts, heap, clock, ticks, cleared,
                   clearMark, pc, arg, local, started, ret>>

VerInit ==
    /\ schemas \in {{<<MigDomain, v>> : v \in stems} : stems \in SUBSET VerStems}
    /\ scripts = EmptyDict
    /\ mig = NoRun
    /\ RegInit

VerNext ==
    \/ \E order \in DirOrders : DoGetAvailableVersions(order)
    \/ \E order \in DirOrders : DoGetLatestVersion(order)
    \/ \E a \in VerVersions, b \in VerVersions : DoNeedsMigration(a, b)

SpecVer == VerInit /\ [][VerNext]_vars

----------------------------------------------------------------------------
(* ContractRegistry.execute_with_migration, run by one caller: the loads,  *)
(* the migration and the execution of one call, start to end.              *)

\* ContractRegistry.load run without interruption on the caches reg =
\* [lru, contracts, heap]: the wrapper's lookup, the check of _contracts, the
\* construction and the two installs.
LoadCall(reg, fs, k, now) ==
    LET g == LRUGet(reg.lru, CacheKey(k), now)
        d == k[1]
        v == k[2]
    IN IF g.value # None
       THEN [reg |-> [reg EXCEPT !.lru = g.cache], result |-> Returned(g.value[1])]
       ELSE IF d \in DOMAIN reg.contracts /\ v \in DOMAIN reg.contracts[d]
       THEN LET c == reg.contracts[d][v] IN
            [reg |-> [reg EXCEPT !.lru = LRUPut(g.cache, CacheKey(k), c, now,
                                                ModelCacheSize, RegistryTTL),
                                 !.heap[c].cachedAt = IF @ = None THEN <<now>> ELSE @],
             result |-> Returned(c)]
       ELSE LET r == LoaderLoad(fs, k) IN
            IF ~r.ok
            THEN [reg |-> [reg EXCEPT !.lru = g.cache], result |-> LoadFailure(k, r.exc)]
            ELSE LET c == Len(reg.heap) + 1
                     inDomain == IF d \in DOMAIN reg.contracts
                                 THEN reg.contracts[d] ELSE EmptyDict
                 IN [reg |-> [lru |-> LRUPut(g.cache, CacheKey(k), c, now,
                                             ModelCacheSize, RegistryTTL),
                              contracts |-> DictSet(reg.contracts, d,
                                                    DictSet(inDomain, v, c)),
                              heap |-> Append(reg.heap,
                                              [key |-> k, cachedAt |-> <<now>>])],
                     result |-> Returned(c)]

\* How DynamicContract.execute ends on a payload: no drift, drift on a field,
\* the payload fails validation, or the backend fails. The fields are not
\* modelled here: the way it ends is an input of the call.
ExecOutcomes == {"ok", "drift", "ValidationError", "ModelLoadError"}

\* DynamicContract.execute of the Contract inst on a payload
Execute(inst, content, outcome) ==
    IF outcome \in {"ValidationError", "ModelLoadError"}
    THEN [kind |-> "error", type |-> outcome]
    ELSE [kind |-> "result",
          contract |-> inst,
          validated_data |-> [validated |-> content],
          metadata |-> IF outcome = "drift"
                       THEN [drift_detected |-> TRUE, field_drift |-> TRUE]
                       ELSE [drift_detected |-> FALSE]]

\* dict.update
DictUpdate(d, u) == u @@ d

\* Migration metadata with source and target exchanged
MigrationMetadataSwapped(version, target_version) ==
    [migrated |-> TRUE, source_version |-> target_version, target_version |-> version]

\* execute_with_migration: the dict passed to result.metadata.update
MigrationMetadata(version, target_version) ==
    [migrated |-> TRUE, source_version |-> version, target_version |-> target_version]

\* execute_with_migration: target_version as given, or the latest version
ResolveTarget(fs, domain, target_version) ==
    IF target_version = None THEN GetLatestVersion(fs, domain)
    ELSE [raised |-> FALSE, version |-> target_version]

InvalidVersion == [kind |-> "error", type |-> "InvalidVersion"]
ValueError == [kind |-> "error", type |-> "ValueError"]

\* What a call of execute_with_migration leaves: the caches, the target it
\* resolved, the keys it loaded, the migration it ran and its result.
Ended(reg, resolved, loads, migration, result) ==
    [reg |-> reg, resolved |-> resolved, loads |-> loads,
     migration |-> migration, result |-> result]

\* ContractRegistry.execute_with_migration(domain, version, data,
\* target_version) on the schema files dir, yielded in the given order, and
\* the script files sc
ExecuteWithMigration(reg, dir, order, sc, domain, version, content, target, outcome, now) ==
    LET fs == Listing(dir, order)
        latest == ResolveTarget(fs, domain, target)
    IN IF latest.raised THEN Ended(reg, None, <<>>, None, InvalidVersion)
       ELSE IF latest.version = None THEN Ended(reg, None, <<>>, None, ValueError)
       ELSE
       LET target_version == latest.version[1]
           sourceKey == <<domain, version>>
           targetKey == <<domain, target_version>>
           source == LoadCall(reg, dir, sourceKey, now)
       IN IF source.result.kind = "error"
          THEN Ended(source.reg, <<target_version>>, <<sourceKey>>, None, source.result)
          ELSE IF version = target_version
          THEN Ended(source.reg, <<target_version>>, <<sourceKey>>, None,
                     Execute(source.result.inst, content, outcome))
          ELSE
          LET m == Migrate(fs, sc, content, version, target_version, domain) IN
          IF m.raised # None
          THEN Ended(source.reg, <<target_version>>, <<sourceKey>>, <<m>>, InvalidVersion)
          ELSE
          LET loaded == LoadCall(source.reg, dir, targetKey, now)
              loads == <<sourceKey, targetKey>>
          IN IF loaded.result.kind = "error"
             THEN Ended(loaded.reg, <<target_version>>, loads, <<m>>, loaded.result)
             ELSE LET result == Execute(loaded.result.inst, m.value, outcome) IN
                  IF result.kind = "error"
                  THEN Ended(loaded.reg, <<target_version>>, loads, <<m>>, result)
                  ELSE Ended(loaded.reg, <<target_version>>, loads, <<m>>,
                             [result EXCEPT !.metadata =
                                 DictUpdate(@, MigrationMetadata(version, target_version))])

ExecStems == {V1, V2, V3, Beta}
ExecVersions == {V1, V2, V3}
ExecTargets == {None, <<V1>>, <<V2>>, <<V3>>}
ExecScripts == {<<MigDomain, V1, V2>>, <<MigDomain, V2, V3>>}
ExecScriptDirs == UNION {[present -> ScriptKinds] : present \in SUBSET ExecScripts}

\* One call of execute_with_migration per behaviour, on a registry that has
\* loaded nothing yet. `available` keeps the version ordering of the domain
\* at the call.
DoExecuteWithMigration(version, content, target_version, outcome, order) ==
    /\ mig = NoRun
    /\ \E e \in {ExecuteWithMigration([lru |-> lru, contracts |-> contracts, heap |-> heap],
                                     schemas, order, scripts, MigDomain, version,
                                     content, target_version, outcome, clock)} :
          /\ mig' = [op |-> "execute", domain |-> MigDomain, version |-> version,
                     data |-> content, target |-> target_version,
                     available |-> GetAvailableVersions(Listing(schemas, order),
                                                        MigDomain),
                     resolved |-> e.resolved, loads |-> e.loads,
                     migration |-> e.migration, result |-> e.result]
          /\ lru' = e.reg.lru
          /\ contracts' = e.reg.contracts
          /\ heap' = e.reg.heap
          /\ calls' = calls + Len(e.loads)
    /\ UNCHANGED <<files, clock, ticks, cleared, clearMark, pc, arg, local,
                   started, ret>>

ExecInit ==
    /\ schemas \in {{<<MigDomain, v>> : v \in stems} : stems \in SUBSET ExecStems}
    /\ scripts \in ExecScriptDirs
    /\ mig = NoRun
    /\ RegInit

ExecNext ==
    \E version \in ExecVersions, content \in Payloads, target \in ExecTargets,
       outcome \in ExecOutcomes, order \in DirOrders :
        DoExecuteWithMigration(version, content, target, outcome, order)

SpecExec == ExecInit /\ [][ExecNext]_vars

----------------------------------------------------------------------------
(* app/ml/runtime.py: MLRuntime.load and the detection of the backend kind. *)
(* A model path is [name, shape, children]: the final component of the     *)
(* path as the sequence of its dots and dot-free pieces, what the file     *)
(* system holds there ("missing", "file" or "dir") and, for a directory,   *)
(* the names inside it.                                                    *)

Dot == "."

\* The position of the last dot of a name, 0 if it has none (str.rfind)
LastDot(name) ==
    IF \E i \in 1..Len(name) : name[i] = Dot
    THEN CHOOSE i \in 1..Len(name) :
            name[i] = Dot /\ \A j \in (i + 1)..Len(name) : name[j] # Dot
    ELSE 0

\* pathlib's PurePath.suffix: from the last dot on, unless that dot starts or
\* ends the name
Suffix(name) ==
    LET i == LastDot(name)
    IN IF 1 < i /\ i < Len(name) THEN SubSeq(name, i, Len(name)) ELSE <<>>

Ext(e) == <<Dot, e>>

\* Detection that resolves what it cannot tell to tensorflow
DetectModelTypeDefaultTF(path) ==
    IF Suffix(path.name) = Ext("onnx") THEN "onnx"
    ELSE IF Suffix(path.name) \in {Ext("h5"), Ext("pb")} THEN "tensorflow"
    ELSE IF Suffix(path.name) \in {Ext("pth"), Ext("pt")} THEN "pytorch"
    ELSE "tensorflow"

\* MLRuntime._detect_model_type
DetectModelType(path) ==
    IF Suffix(path.name) = Ext("onnx") THEN "onnx"
    ELSE IF Suffix(path.name) \in {Ext("h5"), Ext("pb")} THEN "tensorflow"
    ELSE IF Suffix(path.name) \in {Ext("pth"), Ext("pt")} THEN "pytorch"
    ELSE IF /\ path.shape = "dir"
            /\ ("saved_model.pb" \in path.children \/ "variables" \in path.children)
    THEN "tensorflow"
    ELSE IF /\ path.shape = "dir"
            /\ ("model.pt" \in path.children \/ "model.pth" \in path.children)
    THEN "pytorch"
    ELSE "onnx"

\* ONNXRuntime.load, TensorFlowRuntime.load, PyTorchRuntime.load: a missing
\* path and a file the library does not accept (loadable is FALSE) raise
\* ModelLoadError.
BackendLoad(backend, path, loadable) ==
    IF path.shape = "missing" \/ ~loadable THEN ModelLoadError
    ELSE [kind |-> "runtime", backend |-> backend, model_path |-> path.name]

BackendKinds == {"onnx", "tensorflow", "pytorch"}

\* MLRuntime.load(model_path, model_type)
MLRuntimeLoad(path, model_type, loadable) ==
    LET kind == IF model_type = None THEN DetectModelType(path) ELSE model_type[1]
    IN IF kind \in BackendKinds THEN BackendLoad(kind, path, loadable)
       ELSE ModelLoadError

----------------------------------------------------------------------------
(* app/contracts/base.py, app/rules: DynamicContract at the level of its   *)
(* fields. A schema configuration is a dict: under "fields" the fields in  *)
(* document order, each a name with its field configuration (a dict), and  *)
(* the optional keys "ml_model" and "ml_model_type". A payload is a dict   *)
(* from names to optional numbers (None is a JSON null).                   *)

\* dict.get(key): the value held as <<value>>, or None
Get(d, key) == IF key \in DOMAIN d THEN <<d[key]>> ELSE None

\* RepairRule.apply on a number
RepairRuleApply(rule_type, value, config) ==
    LET min_val == Get(config, "min")
        max_val == Get(config, "max")
    IN CASE rule_type = "clamp" ->
              IF min_val # None /\ value[1] < min_val[1] THEN min_val
              ELSE IF max_val # None /\ value[1] > max_val[1] THEN max_val
              ELSE value
         [] rule_type = "default" ->
              IF value = None THEN Get(config, "default") ELSE value
         [] OTHER -> value

\* ValidationRule.apply on a number: TRUE when it raises ValueError
ValidationRuleRaises(rule_type, value, config) ==
    LET min_val == Get(config, "min")
        max_val == Get(config, "max")
    IN /\ rule_type = "range"
       /\ \/ min_val # None /\ value[1] < min_val[1]
          \/ max_val # None /\ value[1] > max_val[1]

Names(fields) == {fields[i].name : i \in 1..Len(fields)}

ConfigOf(fields, name) ==
    fields[CHOOSE i \in 1..Len(fields) : fields[i].name = name].config

\* _attach_rules.apply_rules: the repair rules, then the validation rules, on
\* the fields the payload holds
ApplyRules(fields, data) ==
    LET repairs(f) == f \in DOMAIN data /\ "repair" \in DOMAIN ConfigOf(fields, f)
        repaired == [f \in DOMAIN data |->
                        IF repairs(f) /\ (data[f] # None
                                          \/ ConfigOf(fields, f)["repair"] # "clamp")
                        THEN RepairRuleApply(ConfigOf(fields, f)["repair"], data[f],
                                             ConfigOf(fields, f))
                        ELSE data[f]]
    IN IF \E f \in DOMAIN data \cap Names(fields) :
             /\ "validation" \in DOMAIN ConfigOf(fields, f)
             /\ repaired[f] # None
             /\ ValidationRuleRaises(ConfigOf(fields, f)["validation"], repaired[f],
                                     ConfigOf(fields, f))
       THEN [raised |-> TRUE, data |-> repaired]
       ELSE [raised |-> FALSE, data |-> repaired]

\* The validators pydantic collects for the model class. It collects them
\* from the class namespace while create_model builds the class; _attach_rules
\* assigns apply_rules to the attribute model_validator of the finished class,
\* which registers nothing.
CollectedValidators == {}

\* Field constraints that forget the configured default
NoDefault(config) ==
    [default |-> None, ge |-> Get(config, "min"), le |-> Get(config, "max")]

\* Field constraints that bound nothing
NoConstraints(config) == [default |-> Get(config, "default"), ge |-> None, le |-> None]

\* _create_field_info: Field(default=config.get("default"), ge=min, le=max)
CreateFieldInfo(config) ==
    [default |-> Get(config, "default"),
     ge |-> Get(config, "min"),
     le |-> Get(config, "max")]

PydanticError(locs) ==
    [kind |-> "error", type |-> "pydantic.ValidationError", fields |-> locs]

\* A model that allows extra keys
ExtraKeysAllowed(fields, data) == {}

\* ConfigDict(extra="forbid"): the keys of the payload that are no field
ExtraKeys(fields, data) == DOMAIN data \ Names(fields)

\* self.model(**data): the validators collected, then every key and field
\* checked in one pass (a number within ge and le; a null is no number; an
\* absent field takes its default, which is not validated).
ModelCall(fields, data) ==
    LET before == IF "apply_rules" \in CollectedValidators
                  THEN ApplyRules(fields, data)
                  ELSE [raised |-> FALSE, data |-> data]
        given == before.data
        info(f) == CreateFieldInfo(ConfigOf(fields, f))
        bad == {f \in DOMAIN given \cap Names(fields) :
                  \/ given[f] = None
                  \/ info(f).ge # None /\ given[f][1] < info(f).ge[1]
                  \/ info(f).le # None /\ given[f][1] > info(f).le[1]}
        locs == ExtraKeys(fields, given) \cup bad
    IN IF before.raised THEN PydanticError({})
       ELSE IF locs # {} THEN PydanticError(locs)
       ELSE [kind |-> "validated",
             values |-> [f \in Names(fields) |->
                            IF f \in DOMAIN given THEN given[f]
                            ELSE info(f).default]]

\* A check that trips at the threshold already
CheckDriftAtThreshold(drift_config, value) ==
    LET drift_type == IF "type" \in DOMAIN drift_config
                      THEN drift_config["type"] ELSE "mean_shift"
        expected_mean == Get(drift_config, "expected_mean")
        threshold == IF "threshold" \in DOMAIN drift_config
                     THEN drift_config["threshold"] ELSE 2
        diff == value[1] - expected_mean[1]
    IN /\ drift_type = "mean_shift"
       /\ expected_mean # None
       /\ (IF diff < 0 THEN 0 - diff ELSE diff) >= threshold

\* DriftDetector.check_drift on a number
CheckDrift(drift_config, value) ==
    LET drift_type == IF "type" \in DOMAIN drift_config
                      THEN drift_config["type"] ELSE "mean_shift"
        expected_mean == Get(drift_config, "expected_mean")
        threshold == IF "threshold" \in DOMAIN drift_config
                     THEN drift_config["threshold"] ELSE 2
        diff == value[1] - expected_mean[1]
    IN /\ drift_type = "mean_shift"
       /\ expected_mean # None
       /\ (IF diff < 0 THEN 0 - diff ELSE diff) > threshold

\* check_drift computes abs(None - expected_mean): TypeError
CheckDriftRaises(drift_config, value) ==
    /\ value = None
    /\ (IF "type" \in DOMAIN drift_config
        THEN drift_config["type"] ELSE "mean_shift") = "mean_shift"
    /\ "expected_mean" \in DOMAIN drift_config

\* f"{field_name}_drift"
DriftKey(name) ==
    CASE name = "temp_c" -> "temp_c_drift"
      [] name = "humidity" -> "humidity_drift"

TypeError == [kind |-> "error", type |-> "TypeError"]

\* How a call ends: its result or error, and whether it got as far as the
\* backend's predict and as the drift checks
Ran(result, predicted, driftChecked) ==
    [result |-> result, predicted |-> predicted, driftChecked |-> driftChecked]

\* execute that goes on without predictions when predict fails
ContractExecuteLenient(contract, data, predict) ==
    LET fields == contract.config.fields
        validated == ModelCall(fields, data)
        drifting == {f \in Names(fields) :
                       /\ "drift" \in DOMAIN ConfigOf(fields, f)
                       /\ validated.values[f] # None
                       /\ CheckDrift(ConfigOf(fields, f)["drift"], validated.values[f])}
    IN IF validated.kind = "error" THEN Ran(validated, FALSE, FALSE)
       ELSE Ran([kind |-> "result",
                 validated_data |-> validated.values,
                 predictions |-> None,
                 metadata |-> [k \in {DriftKey(f) : f \in drifting} |-> TRUE]
                              @@ [drift_detected |-> drifting # {}]],
                contract.ml_runtime # None, TRUE)

\* DynamicContract.execute(data); predict is how the backend's predict ends
\* if it is called ("ok" or "fails"). The input array is built with dtype
\* float32, which takes a None as nan.
ContractExecute(contract, data, predict) ==
    LET fields == contract.config.fields
        validated == ModelCall(fields, data)
    IN IF validated.kind = "error" THEN Ran(validated, FALSE, FALSE)
       ELSE IF contract.ml_runtime # None /\ predict = "fails"
       THEN Ran(ModelLoadError, TRUE, FALSE)
       ELSE
       LET withDrift == {f \in Names(fields) : "drift" \in DOMAIN ConfigOf(fields, f)}
           drifting == {f \in withDrift :
                          /\ validated.values[f] # None
                          /\ CheckDrift(ConfigOf(fields, f)["drift"],
                                        validated.values[f])}
       IN IF \E f \in withDrift :
                CheckDriftRaises(ConfigOf(fields, f)["drift"], validated.values[f])
          THEN Ran(TypeError, contract.ml_runtime # None, TRUE)
          ELSE Ran([kind |-> "result",
                    validated_data |-> validated.values,
                    predictions |-> IF contract.ml_runtime # None
                                    THEN <<contract.ml_runtime[1].backend>> ELSE None,
                    metadata |-> [k \in {DriftKey(f) : f \in drifting} |-> TRUE]
                                 @@ [drift_detected |-> drifting # {}]],
                   contract.ml_runtime # None, TRUE)

\* DynamicContract.__init__(name, version, config): the model is built from
\* the fields, and a backend is loaded from config["ml_model"] alone.
DynamicContractInit(name, version, config, loadable) ==
    LET runtime == IF "ml_model" \in DOMAIN config
                   THEN <<MLRuntimeLoad(config["ml_model"], None, loadable)>>
                   ELSE None
    IN IF runtime # None /\ runtime[1].kind = "error" THEN runtime[1]
       ELSE [kind |-> "contract", name |-> name, version |-> version,
             config |-> config, ml_runtime |-> runtime]

----------------------------------------------------------------------------
(* One contract built from a schema configuration and executed once.       *)

\* The bounds of a field: none, both, one
BoundsOptions == {EmptyDict, [min |-> 1, max |-> 3], [min |-> 1], [max |-> 3]}

\* The default of a field: none, one within the bounds, one outside them
DefaultOptions == {EmptyDict, [default |-> 2], [default |-> 5]}

RepairOptions == {EmptyDict, [repair |-> "clamp"], [repair |-> "default"]}

ValidationOptions == {EmptyDict, [validation |-> "range"]}

\* Drift directives: mean shift with both parameters, with the default
\* threshold, without an expected mean, and a kind check_drift does not know
DriftOptions ==
    {EmptyDict,
     [drift |-> [type |-> "mean_shift", expected_mean |-> 2, threshold |-> 1]],
     [drift |-> [expected_mean |-> 1]],
     [drift |-> [type |-> "mean_shift", threshold |-> 1]],
     [drift |-> [type |-> "variance", expected_mean |-> 2, threshold |-> 1]]}

TempConfigs ==
    {b @@ d @@ r @@ v @@ dr :
        b \in BoundsOptions, d \in DefaultOptions, r \in RepairOptions,
        v \in ValidationOptions, dr \in DriftOptions}

HumidityConfig ==
    [default |-> 2, drift |-> [expected_mean |-> 2, threshold |-> 1]]

FieldLists ==
    {<<[name |-> "temp_c", config |-> c]>> : c \in TempConfigs}
    \cup {<<[name |-> "temp_c", config |-> c],
            [name |-> "humidity", config |-> HumidityConfig]>> : c \in TempConfigs}

OnnxFile == [name |-> <<"model", Dot, "onnx">>, shape |-> "file", children |-> {}]

ContractConfigs ==
    {[fields |-> fl] @@ ml : fl \in FieldLists, ml \in {EmptyDict, [ml_model |-> OnnxFile]}}

Numbers == 0..4

ContractPayloads ==
    {t @@ h @@ x :
        t \in {EmptyDict} \cup {[temp_c |-> v] : v \in {None} \cup {<<n>> : n \in Numbers}},
        h \in {EmptyDict, [humidity |-> <<2>>], [humidity |-> <<4>>]},
        x \in {EmptyDict, [unit |-> <<1>>]}}

\* DynamicContract(name, version, config)
DoConstruct(config, loadable) ==
    /\ mig = NoRun
    /\ mig' = [op |-> "contract", config |-> config,
               result |-> DynamicContractInit(MigDomain, V1, config, loadable)]
    /\ UNCHANGED <<files, calls, lru, contracts, heap, clock, ticks, cleared,
                   clearMark, pc, arg, local, started, ret>>

\* contract.execute(data) on the contract built
DoContractExecute(data, predict) ==
    /\ mig.op = "contract"
    /\ mig.result.kind = "contract"
    /\ \E r \in {ContractExecute(mig.result, data, predict)} :
          mig' = [op |-> "executed", contract |-> mig.result, data |-> data,
                  predictFailed |-> r.predicted /\ predict = "fails",
                  ran |-> r]
    /\ UNCHANGED <<files, calls, lru, contracts, heap, clock, ticks, cleared,
                   clearMark, pc, arg, local, started, ret>>

ContractInit ==
    /\ schemas = {}
    /\ scripts = EmptyDict
    /\ mig = NoRun
    /\ RegInit

ContractNext ==
    \/ \E config \in ContractConfigs, loadable \in BOOLEAN : DoConstruct(config, loadable)
    \/ \E data \in ContractPayloads, predict \in {"ok", "fails"} :
          DoContractExecute(data, predict)

SpecContract == ContractInit /\ [][ContractNext]_vars

----------------------------------------------------------------------------
(* The backend of a model path: detection, MLRuntime.load, and the          *)
(* construction of a contract whose configuration names a model.            *)

ModelNames ==
    {<<"model", Dot, x>> : x \in {"onnx", "h5", "pb", "pt", "pth", "bin", "H5"}}
    \cup {<<"model">>, <<"model", Dot>>, <<Dot, "h5">>,
          <<"model", Dot, "h5", Dot, "onnx">>, <<"model", Dot, "onnx", Dot, "bak">>}

DirMarkers == {"saved_model.pb", "variables", "model.pt", "model.pth"}

ModelPaths ==
    {[name |-> n, shape |-> sh, children |-> {}] : n \in ModelNames, sh \in {"missing", "file"}}
    \cup {[name |-> n, shape |-> "dir", children |-> c] : n \in ModelNames, c \in SUBSET DirMarkers}

\* model_type arguments: none, the three kinds, and one load does not know
ModelTypes == {None} \cup {<<k>> : k \in BackendKinds \cup {"sklearn"}}

RuntimeConfigs ==
    {[fields |-> <<[name |-> "temp_c", config |-> [min |-> 1, max |-> 3]]>>,
      ml_model |-> [name |-> n, shape |-> "file", children |-> {}]] @@ t :
        n \in ModelNames,
        t \in {EmptyDict} \cup {[ml_model_type |-> k] : k \in BackendKinds \cup {"sklearn"}}}

\* MLRuntime._detect_model_type(path)
DoDetect(path) ==
    /\ mig = NoRun
    /\ mig' = [op |-> "detect", path |-> path, result |-> DetectModelType(path)]
    /\ UNCHANGED <<files, calls, lru, contracts, heap, clock, ticks, cleared,
                   clearMark, pc, arg, local, started, ret>>

\* MLRuntime.load(model_path, model_type)
DoRuntimeLoad(path, model_type, loadable) ==
    /\ mig = NoRun
    /\ mig' = [op |-> "load", path |-> path, model_type |-> model_type,
               loadable |-> loadable,
               result |-> MLRuntimeLoad(path, model_type, loadable)]
    /\ UNCHANGED <<files, calls, lru, contracts, heap, clock, ticks, cleared,
                   clearMark, pc, arg, local, started, ret>>

RuntimeNext ==
    \/ \E path \in ModelPaths : DoDetect(path)
    \/ \E path \in ModelPaths, model_type \in ModelTypes, loadable \in BOOLEAN :
          DoRuntimeLoad(path, model_type, loadable)
    \/ \E config \in RuntimeConfigs, loadable \in BOOLEAN : DoConstruct(config, loadable)

SpecRuntime == ContractInit /\ [][RuntimeNext]_vars

----------------------------------------------------------------------------
(* app/api/predict.py: the two execute endpoints, one request per          *)
(* behaviour on a registry that has loaded nothing yet.                    *)

\* A handler that answers by the kind of the failure
HandlerStatusByKind(result) ==
    IF result.kind # "error" THEN 200
    ELSE CASE result.type = "ContractNotFoundError" -> 404
           [] result.type = "ValidationError" -> 422
           [] result.type = "ModelLoadError" -> 503
           [] OTHER -> 400

\* The status of the answer: the handlers' first clause, except Exception,
\* catches every failure of the core and raises HTTPException(400); the
\* clauses written after it are never reached.
HandlerStatus(result) == IF result.kind = "error" THEN 400 ELSE 200

ApiRoutes == {"predict", "execute-with-migration"}

\* The try block of the handler of a route, predict or execute_with_migration:
\* the caches it leaves and what the core returned or raised. predict calls
\* ContractRegistry.execute_with_migration if target_version is given and
\* not empty, and loads and executes the version's contract otherwise;
\* execute_with_migration always calls it.
Handle(route, reg, dir, order, sc, domain, version, request, target, outcome, now) ==
    IF route = "execute-with-migration" \/ (target # None /\ target[1] # <<>>)
    THEN ExecuteWithMigration(reg, dir, order, sc, domain, version, request,
                              target, outcome, now)
    ELSE LET loaded == LoadCall(reg, dir, <<domain, version>>, now)
         IN [reg |-> loaded.reg,
             result |-> IF loaded.result.kind = "error" THEN loaded.result
                        ELSE Execute(loaded.result.inst, request, outcome)]

ApiDomains == {MigDomain, "invalid"}
ApiStems == {V1, V2}
ApiTargets == {None, <<V1>>, <<V2>>}
ApiScriptDirs == UNION {[present -> ScriptKinds] : present \in SUBSET {<<MigDomain, V1, V2>>}}

\* POST /predict/{domain}/{version} (route "predict") or
\* POST /predict/{domain}/{version}/execute-with-migration
DoRequest(route, domain, version, request, target, outcome, order) ==
    /\ mig = NoRun
    /\ \E e \in {Handle(route, [lru |-> lru, contracts |-> contracts, heap |-> heap],
                        schemas, order, scripts, domain, version, request,
                        target, outcome, clock)} :
          /\ mig' = [op |-> route, domain |-> domain, version |-> version,
                     request |-> request, target |-> target,
                     core |-> e.result, status |-> HandlerStatus(e.result)]
          /\ lru' = e.reg.lru
          /\ contracts' = e.reg.contracts
          /\ heap' = e.reg.heap
    /\ UNCHANGED <<files, calls, clock, ticks, cleared, clearMark, pc, arg, local,
                   started, ret>>

ApiInit ==
    /\ schemas \in {{<<MigDomain, v>> : v \in stems} : stems \in SUBSET ApiStems}
    /\ scripts \in ApiScriptDirs
    /\ mig = NoRun
    /\ RegInit

ApiNext ==
    \E route \in ApiRoutes, domain \in ApiDomains, version \in ExecVersions,
       request \in Payloads, target \in ApiTargets, outcome \in ExecOutcomes,
       order \in DirOrders :
        DoRequest(route, domain, version, request, target, outcome, order)

SpecApi == ApiInit /\ [][ApiNext]_vars

----------------------------------------------------------------------------
(* app/performance.py: one LRUCache used on its own. Every operation runs  *)
(* under the cache's lock, so the operations of any number of threads form *)
(* one sequence. `mig` keeps the last operation and, per key, the number   *)
(* of the operation that last touched it (a put, or a get that returned    *)
(* its value).                                                             *)

MaxOps == 4

\* max_size of the cache under study
LruMaxSize == 2

LruKeys == {"a", "b", "c"}

Touch(key) == [mig.touched EXCEPT ![key] = calls + 1]

\* cache.get(key)
DoGet(key) ==
    /\ calls < MaxOps
    /\ calls' = calls + 1
    /\ \E g \in {LRUGet(lru, key, clock)} :
          /\ lru' = g.cache
          /\ mig' = [op |-> "get", key |-> key, before |-> lru, now |-> clock,
                     value |-> g.value,
                     touched |-> IF g.value # None THEN Touch(key) ELSE mig.touched]
    /\ UNCHANGED <<files, contracts, heap, clock, ticks, cleared, clearMark, pc,
                   arg, local, started, ret>>

\* cache.put(key, value): the value is the number of the operation
DoPut(key) ==
    /\ calls < MaxOps
    /\ calls' = calls + 1
    /\ lru' = LRUPut(lru, key, calls + 1, clock, LruMaxSize, RegistryTTL)
    /\ mig' = [op |-> "put", key |-> key, before |-> lru, now |-> clock,
               value |-> None, touched |-> Touch(key)]
    /\ UNCHANGED <<files, contracts, heap, clock, ticks, cleared, clearMark, pc,
                   arg, local, started, ret>>

\* cache.clear()
DoClear ==
    /\ calls < MaxOps
    /\ calls' = calls + 1
    /\ lru' = <<>>
    /\ mig' = [op |-> "clear", key |-> None, before |-> lru, now |-> clock,
               value |-> None, touched |-> mig.touched]
    /\ UNCHANGED <<files, contracts, heap, clock, ticks, cleared, clearMark, pc,
                   arg, local, started, ret>>

LruInit ==
    /\ schemas = {}
    /\ scripts = EmptyDict
    /\ mig = [op |-> "none", touched |-> [k \in LruKeys |-> 0]]
    /\ RegInit

LruNext ==
    \/ \E key \in LruKeys : DoGet(key)
    \/ \E key \in LruKeys : DoPut(key)
    \/ DoClear
    \/ \E d \in TimeSteps : Advance(d)

SpecLru == LruInit /\ [][LruNext]_vars

----------------------------------------------------------------------------
(* app/security.py: RateLimitMiddleware, as main.py installs it. A request  *)
(* is its X-Forwarded-For header (None when absent) and the host of its     *)
(* client (None when the request has no client), both as tuples of          *)
(* characters. mig keeps the middleware's `clients` and a log of the        *)
(* requests dispatched: key, time and whether the request was forwarded.    *)

RateLimitCalls == 2
RateLimitPeriod == 2
MaxRequests == 5
MaxTime == 4

Unknown == <<"u", "n", "k", "n", "o", "w", "n">>

\* forwarded.split(",")[0]
FirstElement(text) ==
    IF \E i \in 1..Len(text) : text[i] = ","
    THEN SubSeq(text, 1, (CHOOSE i \in 1..Len(text) :
                             text[i] = "," /\ \A h \in 1..(i - 1) : text[h] # ",") - 1)
    ELSE text

\* str.strip() of spaces
Strip(text) ==
    LET kept == {i \in 1..Len(text) : text[i] # " "} IN
    IF kept = {} THEN <<>>
    ELSE SubSeq(text, CHOOSE i \in kept : \A j \in kept : i <= j,
                      CHOOSE i \in kept : \A j \in kept : j <= i)

\* RateLimitMiddleware._get_client_ip
GetClientIp(request) ==
    IF request.forwarded # None /\ request.forwarded[1] # <<>>
    THEN Strip(FirstElement(request.forwarded[1]))
    ELSE IF request.client # None THEN request.client[1] ELSE Unknown

\* A clean-up that also drops the entry that is exactly one period old
DropOldInclusive(window, cutoff) ==
    IF \E i \in 1..Len(window) : window[i] > cutoff
    THEN SubSeq(window, CHOOSE i \in 1..Len(window) :
                            window[i] > cutoff /\ \A h \in 1..(i - 1) : window[h] <= cutoff,
                Len(window))
    ELSE <<>>

\* dispatch: while clients[ip] and clients[ip][0] < cutoff: popleft()
DropOld(window, cutoff) ==
    IF \E i \in 1..Len(window) : window[i] >= cutoff
    THEN SubSeq(window, CHOOSE i \in 1..Len(window) :
                            window[i] >= cutoff /\ \A h \in 1..(i - 1) : window[h] < cutoff,
                Len(window))
    ELSE <<>>

\* RateLimitMiddleware.dispatch(request, call_next) at time now: the clients
\* it leaves and whether it called call_next or raised HTTPException(429).
\* self.clients is a defaultdict: reading a key creates its empty deque.
Dispatch(clients, request, now) ==
    LET client_ip == GetClientIp(request)
        window == IF client_ip \in DOMAIN clients THEN clients[client_ip] ELSE <<>>
        kept == DropOld(window, now - RateLimitPeriod)
    IN IF Len(kept) >= RateLimitCalls
       THEN [clients |-> DictSet(clients, client_ip, kept), key |-> client_ip,
             time |-> now, forwarded |-> FALSE, status |-> <<429>>]
       ELSE [clients |-> DictSet(clients, client_ip, Append(kept, now)),
             key |-> client_ip, time |-> now, forwarded |-> TRUE, status |-> None]

\* The requests: no X-Forwarded-For header, an empty one or " b,a"; no
\* client or the client host "a"
Requests ==
    [forwarded : {None, <<<<>>>>, <<<<" ", "b", ",", "a">>>>}, client : {None, <<<<"a">>>>}]

\* One request goes through the middleware. dispatch has no await between
\* its reading of the clock and its append: on the event loop it is one step.
DoDispatch(request) ==
    /\ Len(mig.log) < MaxRequests
    /\ LET d == Dispatch(mig.clients, request, clock) IN
       mig' = [op |-> "dispatch", clients |-> d.clients,
               log |-> Append(mig.log, [key |-> d.key, time |-> d.time,
                                        forwarded |-> d.forwarded,
                                        status |-> d.status])]
    /\ UNCHANGED <<files, calls, lru, contracts, heap, clock, ticks, cleared,
                   clearMark, pc, arg, local, started, ret>>

\* time.time() moves on between two requests
Tick ==
    /\ clock < MaxTime
    /\ clock' = clock + 1
    /\ UNCHANGED <<files, mig, calls, lru, contracts, heap, ticks, cleared,
                   clearMark, pc, arg, local, started, ret>>

LimiterInit ==
    /\ schemas = {}
    /\ scripts = EmptyDict
    /\ mig = [op |-> "none", clients |-> EmptyDict, log |-> <<>>]
    /\ RegInit

LimiterNext ==
    \/ \E request \in Requests : DoDispatch(request)
    \/ Tick

SpecLimiter == LimiterInit /\ [][LimiterNext]_vars

----------------------------------------------------------------------------
(* Properties of the registry (under Spec) *)

Built(k) == {i \in 1..Len(heap) : heap[i].key = k}

Holds(t) == pc[t] = "idle" /\ ret[t].kind = "contract"

\* The Contract instances either cache layer retains.
Retained ==
    {lru[i].value : i \in 1..Len(lru)}
    \cup UNION {{contracts[d][v] : v \in DOMAIN contracts[d]} : d \in DOMAIN contracts}

\* C1: as long as clear_cache has discarded nothing and no time has passed
\* (so no entry can have expired), however many callers load a key and in
\* whatever order their steps interleave, that key's Contract is constructed
\* at most once.
C1_OneConstructionPerKey ==
    (clearMark = 0 /\ clock = 0) => \A k \in RegKeys : Cardinality(Built(k)) <= 1

\* C2: as long as clear_cache has discarded nothing and no time has passed,
\* any two finished loads of the same key returned the same Contract
\* instance.
C2_SameInstanceForAllCallers ==
    (clearMark = 0 /\ clock = 0) =>
        \A t1, t2 \in Threads :
            (Holds(t1) /\ Holds(t2) /\ arg[t1] = arg[t2]) => ret[t1].inst = ret[t2].inst

\* C3: a load that began after the last clear_cache never returns a Contract
\* that was constructed before that clear_cache.
C3_ClearDiscardsEveryContract ==
    \A t \in Threads : (Holds(t) /\ ~cleared[t]) => ret[t].inst > clearMark

\* C4: a load never returns a Contract that was first cached more than the
\* TTL before the load began.
C4_NoReuseBeyondTtl ==
    \A t \in Threads :
        (Holds(t) /\ heap[ret[t].inst].cachedAt # None) =>
            started[t][1] - heap[ret[t].inst].cachedAt[1] <= RegistryTTL

\* C5: the cache layers together never retain more Contract instances than
\* the configured capacity.
C5_RetainedWithinCapacity == Cardinality(Retained) <= ModelCacheSize

\* C6: a finished load of a (domain, version) that has no schema document
\* raised ContractNotFoundError carrying that domain and version: it neither
\* returned a Contract nor raised any other error.
C6_MissingSchemaIsNotFound ==
    \A t \in Threads :
        (pc[t] = "idle" /\ ret[t] # NoResult /\ arg[t] \notin schemas) =>
            /\ ret[t].kind = "error"
            /\ ret[t].type = "ContractNotFoundError"
            /\ ret[t].domain = arg[t][1]
            /\ ret[t].version = arg[t][2]

\* C6 happens: a load of fraud/v1, which has no schema, has finished while
\* the other thread was loading or had loaded a key that has one.
C6_Witness ==
    \E t, u \in Threads :
        /\ pc[t] = "idle" /\ ret[t] # NoResult /\ arg[t] \notin schemas
        /\ u # t /\ arg[u] # None /\ arg[u] \in schemas

----------------------------------------------------------------------------
(* Properties of migrate (under SpecMig) *)

Migrated == mig.op = "migrate"

\* The call returned the caller's own dict, with the content it was given,
\* and ran no script.
Passthrough ==
    /\ mig.returned
    /\ mig.sameObject
    /\ mig.value = mig.data
    /\ mig.input = mig.data
    /\ mig.executed = <<>>

Parses(v) == ParseVersion(StripV(v)) # None

\* from_version is a version strictly before to_version
StrictlyPrecedes(a, b) ==
    /\ Parses(a) /\ Parses(b)
    /\ ReleaseLess(ParseVersion(StripV(a))[1], ParseVersion(StripV(b))[1])

ScriptExists(from_version, to_version) ==
    ScriptPath(mig.domain, from_version, to_version) \in DOMAIN scripts

\* C7: migrate(payload, v, v, domain) returns the payload unchanged and
\* executes no script.
C7_SameVersionIsNoOp == (Migrated /\ mig.from = mig.to) => Passthrough

\* C7 happens: migrate was called with equal versions for which a script
\* file exists.
C7_Witness == Migrated /\ mig.from = mig.to /\ ScriptExists(mig.from, mig.to)

\* C8: when from_version is a later version than to_version, migrate returns
\* the payload unchanged and executes no script, whatever script files exist.
C8_DowngradeIsNoOp ==
    (Migrated /\ StrictlyPrecedes(mig.to, mig.from)) => Passthrough

\* C8 happens: a downgrade was requested and a script file for exactly that
\* (domain, from, to) exists.
C8_Witness ==
    Migrated /\ StrictlyPrecedes(mig.to, mig.from) /\ ScriptExists(mig.from, mig.to)

\* C9: when from_version and to_version differ and at least one of them is no
\* parseable version, migrate returns the payload unchanged and executes no
\* script.
C9_UnorderedIsNoOp ==
    (Migrated /\ mig.from # mig.to /\ (~Parses(mig.from) \/ ~Parses(mig.to)))
        => Passthrough

\* C10: when from_version strictly precedes to_version and the script for
\* exactly (domain, from, to) exists and does not raise, migrate returns that
\* script's output on the payload, and that script is the only one executed.
C10_DirectScriptDecides ==
    LET path == ScriptPath(mig.domain, mig.from, mig.to) IN
    (/\ Migrated
     /\ StrictlyPrecedes(mig.from, mig.to)
     /\ path \in DOMAIN scripts
     /\ scripts[path] # "raises")
        => /\ mig.returned
           /\ mig.value = Transformed(mig.data, path)
           /\ mig.executed = <<path>>

\* C10 happens: v1 -> v3 was migrated with a direct script that does not
\* raise while the hop scripts v1 -> v2 and v2 -> v3 exist too and v1, v2, v3
\* all have schemas.
C10_Witness ==
    /\ Migrated /\ mig.from = V1 /\ mig.to = V3
    /\ ScriptExists(V1, V3) /\ scripts[ScriptPath(mig.domain, V1, V3)] # "raises"
    /\ ScriptExists(V1, V2) /\ scripts[ScriptPath(mig.domain, V1, V2)] # "raises"
    /\ ScriptExists(V2, V3) /\ scripts[ScriptPath(mig.domain, V2, V3)] # "raises"
    /\ {<<mig.domain, V1>>, <<mig.domain, V2>>, <<mig.domain, V3>>} \subseteq schemas

\* The script directory without one file
Without(sc, path) == [p \in DOMAIN sc \ {path} |-> sc[p]]

\* The directory orders under which the engine computes the version ordering
\* that the call saw
OrdersSeen ==
    {order \in DirOrders :
        GetAvailableVersions(Listing(schemas, order), mig.domain) = mig.available}

RECURSIVE ApplyHops(_, _, _, _)
ApplyHops(content, versions, i, j) ==
    IF i >= j THEN content
    ELSE ApplyHops(Transformed(content, ScriptPath(mig.domain, versions[i], versions[i + 1])),
                   versions, i + 1, j)

\* The positions of from_version and to_version in the version ordering
FromIdx == IndexOf(mig.available.versions, mig.from)
ToIdx == IndexOf(mig.available.versions, mig.to)

\* from_version and to_version are versions of the domain, in this order
Ordered == ~mig.available.raised /\ FromIdx # 0 /\ ToIdx # 0 /\ FromIdx < ToIdx

HopPath(i) ==
    ScriptPath(mig.domain, mig.available.versions[i], mig.available.versions[i + 1])

\* C12: when no direct script exists and every adjacent pair of versions from
\* from_version to to_version has a script that does not raise, migrate
\* returns the hop scripts applied in ascending order to the payload, and
\* those are the scripts it executed, each once.
C12_ChainIsComposition ==
    (/\ Migrated
     /\ Ordered
     /\ ~ScriptExists(mig.from, mig.to)
     /\ \A i \in FromIdx..(ToIdx - 1) :
            HopPath(i) \in DOMAIN scripts /\ scripts[HopPath(i)] # "raises")
        => /\ mig.returned
           /\ mig.value = ApplyHops(mig.data, mig.available.versions, FromIdx, ToIdx)
           /\ mig.executed = [i \in 1..(ToIdx - FromIdx) |-> HopPath(FromIdx + i - 1)]

\* C12 happens: v1 -> v3 was migrated over the versions v1, v2, v3 with the
\* two hop scripts and no direct script, and both hops were applied.
C12_Witness ==
    /\ Migrated /\ mig.from = V1 /\ mig.to = V3
    /\ Ordered /\ ToIdx = FromIdx + 2
    /\ ~ScriptExists(V1, V3)
    /\ mig.returned
    /\ mig.value = Transformed(Transformed(mig.data, ScriptPath(mig.domain, V1, V2)),
                               ScriptPath(mig.domain, V2, V3))

\* C13: when from_version strictly precedes to_version, the schema stems are
\* all versions, no direct script exists and the chain of adjacent scripts is
\* incomplete (a hop has no script, or from_version or to_version is no
\* version of the domain), migrate returns the payload with exactly the
\* content it had at the call.
C13_NoPathReturnsInputUnchanged ==
    (/\ Migrated
     /\ StrictlyPrecedes(mig.from, mig.to)
     /\ ~mig.available.raised
     /\ ~ScriptExists(mig.from, mig.to)
     /\ \/ ~Ordered
        \/ \E i \in FromIdx..(ToIdx - 1) : HopPath(i) \notin DOMAIN scripts)
        => /\ mig.returned
           /\ mig.value = mig.data
           /\ mig.input = mig.data

----------------------------------------------------------------------------
(* Properties of the version operations (under SpecVer) *)

\* C19: the list get_available_versions returns is strictly increasing
\* under version comparison: no entry is followed by an entry that is the
\* same or an earlier version.
C19_VersionsStrictlyIncreasing ==
    (mig.op = "versions" /\ ~mig.result.raised) =>
        \A i, j \in 1..Len(mig.result.versions) :
            i < j => ReleaseLess(VersionKey(mig.result.versions[i]),
                                 VersionKey(mig.result.versions[j]))

\* C20: needs_migration(a, b) is true exactly when a and b are versions and
\* a is strictly before b; it is false for (v, v), and it is never true for
\* both (a, b) and (b, a).
C20_NeedsMigrationIsStrictOrder ==
    mig.op = "needs" =>
        /\ mig.result <=> StrictlyPrecedes(mig.from, mig.to)
        /\ mig.from = mig.to => ~mig.result
        /\ ~(mig.result /\ NeedsMigration(mig.to, mig.from))

----------------------------------------------------------------------------
(* Properties of execute_with_migration (under SpecExec) *)

Executed == mig.op = "execute"

ExecReturned == Executed /\ mig.result.kind = "result"

\* The metadata of the result says the payload was migrated
SaysMigrated ==
    "migrated" \in DOMAIN mig.result.metadata /\ mig.result.metadata.migrated = TRUE

\* The call went to the migration engine, which ran no script and gave the
\* caller's payload back
PassedThrough ==
    /\ mig.migration # None
    /\ mig.migration[1].executed = <<>>
    /\ mig.migration[1].sameObject

\* C14: when the migration engine passed the payload through unchanged (no
\* path, or a downgrade), the metadata of the result of
\* execute_with_migration does not say the payload was migrated.
C14_PassthroughIsRecorded == (ExecReturned /\ PassedThrough) => ~SaysMigrated

\* C15: execute_with_migration without target_version resolves the target to
\* the last of the domain's available versions; when that is not the version
\* supplied, the metadata of the result has target_version equal to it,
\* source_version equal to the version supplied and migrated true.
C15_AutoTargetIsLatest ==
    (/\ Executed
     /\ mig.target = None
     /\ ~mig.available.raised
     /\ mig.available.versions # <<>>)
        => LET latest == mig.available.versions[Len(mig.available.versions)] IN
           /\ mig.resolved = <<latest>>
           /\ (mig.result.kind = "result" /\ latest # mig.version)
                 => /\ mig.result.metadata.target_version = latest
                    /\ mig.result.metadata.source_version = mig.version
                    /\ mig.result.metadata.migrated = TRUE

\* C15 happens: v1 was executed without a target in a domain that has the
\* versions v1, v2 and v3, and a result came back for the target v3.
C15_Witness ==
    /\ ExecReturned
    /\ mig.target = None
    /\ mig.version = V1
    /\ mig.available.versions = <<V1, V2, V3>>
    /\ mig.result.metadata.target_version = V3

\* C16: when the version equals the target, execute_with_migration runs no
\* migration and returns the result of that version's Contract on the
\* payload; its metadata does not say migrated and has a version entry equal
\* to the version requested.
C16_SameVersionExecutesDirectly ==
    (ExecReturned /\ mig.resolved = <<mig.version>>)
        => /\ mig.migration = None
           /\ heap[mig.result.contract].key = <<mig.domain, mig.version>>
           /\ mig.result.validated_data = [validated |-> mig.data]
           /\ ~SaysMigrated
           /\ "version" \in DOMAIN mig.result.metadata
           /\ mig.result.metadata.version = mig.version

\* C17: when the version differs from the target, the result of
\* execute_with_migration is what the target version's Contract returns on
\* migrate(payload, version, target, domain), with migrated = true,
\* source_version = version and target_version = target added to the
\* metadata that the execution produced.
C17_MigratedResultAndProvenance ==
    (ExecReturned /\ mig.resolved # <<mig.version>>)
        => LET target == mig.resolved[1] IN
           \E order \in OrdersSeen, outcome \in ExecOutcomes :
              LET m == Migrate(Listing(schemas, order), scripts, mig.data,
                               mig.version, target, mig.domain)
                  plain == Execute(mig.result.contract, m.value, outcome)
              IN /\ heap[mig.result.contract].key = <<mig.domain, target>>
                 /\ plain.kind = "result"
                 /\ mig.result.validated_data = plain.validated_data
                 /\ \A key \in DOMAIN plain.metadata :
                        /\ key \in DOMAIN mig.result.metadata
                        /\ mig.result.metadata[key] = plain.metadata[key]
                 /\ DOMAIN mig.result.metadata =
                        DOMAIN plain.metadata
                        \cup {"migrated", "source_version", "target_version"}
                 /\ mig.result.metadata.migrated = TRUE
                 /\ mig.result.metadata.source_version = mig.version
                 /\ mig.result.metadata.target_version = target

\* C17 happens: v1 was executed against the target v2 with a v1 -> v2 script,
\* the script's output was executed by the v2 Contract and drift was found.
C17_Witness ==
    /\ ExecReturned
    /\ mig.version = V1 /\ mig.target = <<V2>>
    /\ mig.result.validated_data =
          [validated |-> Transformed(mig.data, ScriptPath(mig.domain, V1, V2))]
    /\ mig.result.metadata.drift_detected = TRUE

\* C18: when the version differs from the target and the target has a schema
\* document, execute_with_migration loads the target version's Contract and
\* no other, and does not fail with ContractNotFoundError.
C18_OnlyTargetIsLoaded ==
    (Executed /\ mig.resolved # None /\ mig.resolved # <<mig.version>>
              /\ <<mig.domain, mig.resolved[1]>> \in schemas)
        => /\ \A i \in 1..Len(mig.loads) : mig.loads[i] = <<mig.domain, mig.resolved[1]>>
           /\ ~(mig.result.kind = "error" /\ mig.result.type = "ContractNotFoundError")


----------------------------------------------------------------------------
(* Properties of DynamicContract.execute (under SpecContract) *)

ContractExecuted == mig.op = "executed"

ContractReturned == ContractExecuted /\ mig.ran.result.kind = "result"

FieldsOf == Names(mig.contract.config.fields)

FieldConfig(f) == ConfigOf(mig.contract.config.fields, f)

\* The payload holds a number for f
Given(f) == f \in DOMAIN mig.data /\ mig.data[f] # None

Below(f) == "min" \in DOMAIN FieldConfig(f) /\ mig.data[f][1] < FieldConfig(f)["min"]

Above(f) == "max" \in DOMAIN FieldConfig(f) /\ mig.data[f][1] > FieldConfig(f)["max"]

OutOfBounds(f) == Given(f) /\ (Below(f) \/ Above(f))

\* The call failed with a validation error that names f
ValidationErrorOn(f) ==
    /\ mig.ran.result.kind = "error"
    /\ mig.ran.result.type = "pydantic.ValidationError"
    /\ f \in mig.ran.result.fields

\* C21: for every field with bounds and a clamp repair directive, execute on
\* a payload whose value lies outside the bounds raises no validation error
\* for the field, and the validated data it returns hold the nearest bound.
C21_ClampRepairsOutOfBounds ==
    ContractExecuted =>
        \A f \in FieldsOf :
            ("repair" \in DOMAIN FieldConfig(f) /\ FieldConfig(f)["repair"] = "clamp"
             /\ OutOfBounds(f))
            => /\ ~ValidationErrorOn(f)
               /\ ContractReturned =>
                    mig.ran.result.validated_data[f] =
                        IF Below(f) THEN <<FieldConfig(f)["min"]>>
                        ELSE <<FieldConfig(f)["max"]>>

AbsentWithDefault(f) == f \notin DOMAIN mig.data /\ "default" \in DOMAIN FieldConfig(f)

\* C22: when a field is absent from the payload and its configuration gives
\* a default, the absence fails no validation and the validated data of the
\* result hold the default for the field.
C22_AbsentFieldTakesDefault ==
    ContractExecuted =>
        \A f \in FieldsOf :
            AbsentWithDefault(f)
            => /\ ~ValidationErrorOn(f)
               /\ ContractReturned =>
                    mig.ran.result.validated_data[f] = <<FieldConfig(f)["default"]>>

\* C22 witness: a result whose validated data hold the default of a field the
\* payload did not give
C22_Witness ==
    /\ ContractReturned
    /\ \E f \in FieldsOf :
          /\ AbsentWithDefault(f)
          /\ mig.ran.result.validated_data[f] = <<FieldConfig(f)["default"]>>

Abs(n) == IF n < 0 THEN 0 - n ELSE n

\* f has a mean-shift directive with an expected mean, and the value of the
\* result is further from the mean than the threshold (2 when none is given)
Deviates(f) ==
    /\ "drift" \in DOMAIN FieldConfig(f)
    /\ LET d == FieldConfig(f)["drift"]
           v == mig.ran.result.validated_data[f]
       IN /\ "type" \in DOMAIN d => d["type"] = "mean_shift"
          /\ "expected_mean" \in DOMAIN d
          /\ v # None
          /\ Abs(v[1] - d["expected_mean"])
                > (IF "threshold" \in DOMAIN d THEN d["threshold"] ELSE 2)

\* C23: in every result, drift_detected is true exactly when some field with
\* a (mean-shift) drift directive has |value - expected_mean| strictly above
\* its threshold, and the flags <field>_drift are set for exactly those fields.
C23_DriftFlagsAreExact ==
    ContractReturned =>
        LET tripped == {f \in FieldsOf : Deviates(f)}
            metadata == mig.ran.result.metadata
        IN /\ metadata["drift_detected"] = (tripped # {})
           /\ DOMAIN metadata = {"drift_detected"} \cup {DriftKey(f) : f \in tripped}
           /\ \A f \in tripped : metadata[DriftKey(f)] = TRUE

\* C23 witness: a result with one field flagged, and another field with a
\* drift directive whose value sits exactly at the threshold and is not flagged
C23_Witness ==
    /\ ContractReturned
    /\ mig.ran.result.metadata["drift_detected"] = TRUE
    /\ "humidity_drift" \in DOMAIN mig.ran.result.metadata
    /\ "temp_c_drift" \notin DOMAIN mig.ran.result.metadata
    /\ "drift" \in DOMAIN FieldConfig("temp_c")
    /\ mig.ran.result.validated_data["temp_c"] = <<3>>
    /\ FieldConfig("temp_c")["drift"] =
          [type |-> "mean_shift", expected_mean |-> 2, threshold |-> 1]

UnknownKeys == DOMAIN mig.data \ FieldsOf

\* C24: execute on a payload with a key that is no field of the schema fails
\* with a validation error naming the key and returns no result, and neither
\* the backend nor the drift checks were reached.
C24_UnknownFieldRejectedFirst ==
    (ContractExecuted /\ UnknownKeys # {}) =>
        /\ \A k \in UnknownKeys : ValidationErrorOn(k)
        /\ ~mig.ran.predicted
        /\ ~mig.ran.driftChecked

\* C24 witness: a payload that is valid but for its unknown key, given to a
\* contract with a backend and a drift directive, was rejected
C24_Witness ==
    /\ ContractExecuted
    /\ ValidationErrorOn("unit")
    /\ mig.ran.result.fields = {"unit"}
    /\ mig.contract.ml_runtime # None
    /\ \E f \in FieldsOf : "drift" \in DOMAIN FieldConfig(f)

\* C25: for a field with bounds and no repair directive, execute on a payload
\* whose value lies outside the bounds fails with a validation error that
\* names the field, and returns no result.
C25_OutOfBoundsWithoutRepairFails ==
    ContractExecuted =>
        \A f \in FieldsOf :
            ("repair" \notin DOMAIN FieldConfig(f) /\ OutOfBounds(f))
            => ValidationErrorOn(f)

\* C25 witness: a value above the maximum of a field without repair directive
\* was rejected
C25_Witness ==
    /\ ContractExecuted
    /\ \E f \in FieldsOf :
          /\ "repair" \notin DOMAIN FieldConfig(f)
          /\ Given(f)
          /\ Above(f)
          /\ ValidationErrorOn(f)
          /\ mig.ran.result.fields = {f}

\* C26: when a backend is bound and its predict fails, execute fails with the
\* backend's error and returns no result.
C26_PredictFailureAborts ==
    (ContractExecuted /\ mig.predictFailed) =>
        /\ mig.contract.ml_runtime # None
        /\ mig.ran.result = ModelLoadError

\* C26 witness: predict failed on a payload that passed validation and whose
\* fields include one with a drift directive
C26_Witness ==
    /\ ContractExecuted
    /\ mig.predictFailed
    /\ mig.ran.result.kind = "error"
    /\ \E f \in FieldsOf : "drift" \in DOMAIN FieldConfig(f)


----------------------------------------------------------------------------
(* Properties of the backend binding (under SpecRuntime) *)

\* C27: when the configuration gives an explicit backend kind, the contract
\* constructed binds a backend of that kind, whatever the extension of the
\* model path.
C27_ExplicitKindWins ==
    (mig.op = "contract" /\ "ml_model_type" \in DOMAIN mig.config
     /\ mig.result.kind = "contract")
    => /\ mig.result.ml_runtime # None
       /\ mig.result.ml_runtime[1].backend = mig.config["ml_model_type"]

\* The name has a stem and ends in the extension ext
HasExtension(name, ext) ==
    /\ Len(name) >= 3
    /\ name[Len(name) - 1] = Dot
    /\ name[Len(name)] = ext

\* A directory that holds a marker of a TensorFlow or PyTorch model
MarkedDir(path) == path.shape = "dir" /\ path.children # {}

\* C28: detection maps a path ending in .onnx to onnx, in .h5 or .pb to
\* tensorflow, in .pt or .pth to pytorch, and a path that matches no
\* extension or directory rule to onnx; MLRuntime.load with a kind outside
\* onnx, tensorflow, pytorch fails with ModelLoadError.
C28_DetectionAndUnsupportedKind ==
    /\ mig.op = "detect" =>
          LET name == mig.path.name IN
          /\ HasExtension(name, "onnx") => mig.result = "onnx"
          /\ (HasExtension(name, "h5") \/ HasExtension(name, "pb"))
                => mig.result = "tensorflow"
          /\ (HasExtension(name, "pt") \/ HasExtension(name, "pth"))
                => mig.result = "pytorch"
          /\ ((\A x \in {"onnx", "h5", "pb", "pt", "pth"} : ~HasExtension(name, x))
              /\ ~MarkedDir(mig.path))
                => mig.result = "onnx"
    /\ (mig.op = "load" /\ mig.model_type # None
        /\ mig.model_type[1] \notin {"onnx", "tensorflow", "pytorch"})
          => mig.result = ModelLoadError

\* C28 witness: a directory without markers whose name has an extension no
\* rule knows was detected as onnx
C28_Witness ==
    /\ mig.op = "detect"
    /\ mig.path.name = <<"model", Dot, "bin">>
    /\ mig.path.shape = "dir"
    /\ mig.path.children = {}
    /\ mig.result = "onnx"


----------------------------------------------------------------------------
(* Properties of the execute endpoints (under SpecApi) *)

Requested == mig.op \in ApiRoutes

\* C29: on the execute operations a missing schema is answered with 404, a
\* validation error with 422, a backend load or inference failure with 503
\* or 500, and only the other failures of the core with 400.
C29_FailuresMapToDistinctStatuses ==
    (Requested /\ mig.core.kind = "error") =>
        CASE mig.core.type = "ContractNotFoundError" -> mig.status = 404
          [] mig.core.type = "ValidationError" -> mig.status = 422
          [] mig.core.type = "ModelLoadError" -> mig.status \in {503, 500}
          [] OTHER -> mig.status = 400

\* C30: a POST to /predict/{domain}/{version} for a domain or a version that
\* has no schema is answered with status 400.
C30_MissingSchemaAnswers400 ==
    (mig.op = "predict" /\ <<mig.domain, mig.version>> \notin schemas)
        => mig.status = 400

\* C30 witness: a request for a version without schema, in a domain that has
\* schemas, was answered with 400 because the contract was not found
C30_Witness ==
    /\ mig.op = "predict"
    /\ mig.domain = MigDomain
    /\ schemas # {}
    /\ <<mig.domain, mig.version>> \notin schemas
    /\ mig.core.kind = "error"
    /\ mig.core.type = "ContractNotFoundError"
    /\ mig.status = 400


----------------------------------------------------------------------------
(* Properties of the caches under concurrent loads (under Spec) *)

\* C31: the construction runs with the cache lock free: while a caller is
\* inside the construction for a key, another caller can begin a load of a
\* different key (its cache lookup included) and can take every step of a
\* load it has begun, up to the install and the put.
C31_ConstructionOutsideLock ==
    \A t, u \in Threads :
        (t # u /\ pc[t] = "construct") =>
            /\ (pc[u] = "idle" /\ calls < MaxCalls) =>
                  \A k \in RegKeys \ {arg[t]} : ENABLED WrapperGet(u, k)
            /\ pc[u] = "check" => ENABLED LoadCheck(u)
            /\ pc[u] = "read" => ENABLED LoadRead(u)
            /\ (pc[u] = "construct" /\ Len(heap) < MaxBuilds) => ENABLED LoadConstruct(u)
            /\ pc[u] = "install_domain" => ENABLED LoadInstallCheck(u)
            /\ pc[u] = "install_new" => ENABLED LoadInstallNew(u)
            /\ pc[u] = "install" => ENABLED LoadInstall(u)
            /\ pc[u] = "wrapper_put" => ENABLED WrapperPut(u)

\* C31 witness: a caller stands inside the construction for one key while
\* another caller, whose call began later (after a clear_cache that the first
\* call had already seen), has looked up, built, installed and returned the
\* Contract of a different key.
C31_Witness ==
    \E t, u \in Threads :
        /\ pc[t] = "construct"
        /\ cleared[t] /\ ~cleared[u]
        /\ arg[u] # arg[t]
        /\ Holds(u)
        /\ heap[ret[u].inst].key = arg[u]
        /\ \E i \in 1..Len(lru) : lru[i].value = ret[u].inst
        /\ arg[u][1] \in DOMAIN contracts
        /\ arg[u][2] \in DOMAIN contracts[arg[u][1]]


----------------------------------------------------------------------------
(* Properties of LRUCache (under SpecLru) *)

KeysOf(cache) == {cache[i].key : i \in 1..Len(cache)}

EntryOf(cache, key) == cache[CHOOSE i \in 1..Len(cache) : cache[i].key = key]

\* The entries of a cache other than the one of key, in their order
Others(cache, key) == SelectSeq(cache, LAMBDA e : e.key # key)

\* C32: get never returns the value of an entry older than its TTL: the
\* entry is removed by that get, which returns None; a get of a live entry
\* returns its value and makes the entry, timestamp unchanged, the most
\* recently used one; no other entry is touched.
C32_GetHonoursTtl ==
    (mig.op = "get") =>
        /\ Others(lru, mig.key) = Others(mig.before, mig.key)
        /\ IF mig.key \notin KeysOf(mig.before)
           THEN mig.value = None /\ lru = mig.before
           ELSE LET entry == EntryOf(mig.before, mig.key) IN
                IF mig.now - entry.timestamp > entry.ttl
                THEN mig.value = None /\ mig.key \notin KeysOf(lru)
                ELSE /\ mig.value = <<entry.value>>
                     /\ lru # <<>>
                     /\ lru[Len(lru)] = entry

\* C32 witness: a get found an entry older than its TTL beside a live entry
C32_Witness ==
    /\ mig.op = "get"
    /\ mig.key \in KeysOf(mig.before)
    /\ mig.now - EntryOf(mig.before, mig.key).timestamp
          > EntryOf(mig.before, mig.key).ttl
    /\ mig.value = None
    /\ Len(lru) = 1
    /\ mig.now - lru[1].timestamp <= lru[1].ttl

\* The key of a cache that was touched least recently
LeastRecent(cache) ==
    CHOOSE k \in KeysOf(cache) :
        \A other \in KeysOf(cache) : mig.touched[k] <= mig.touched[other]

\* C33: the cache never holds more than max_size entries; a put of a new key
\* into a full cache removes exactly the entry touched least recently by a
\* get or a put, and a put of a key the cache holds removes no other entry.
C33_BoundedAndEvictsLeastRecent ==
    /\ Len(lru) <= LruMaxSize
    /\ Cardinality(KeysOf(lru)) = Len(lru)
    /\ (mig.op = "put") =>
          /\ mig.key \in KeysOf(lru)
          /\ IF mig.key \notin KeysOf(mig.before) /\ Len(mig.before) >= LruMaxSize
             THEN Others(lru, mig.key)
                    = Others(mig.before, LeastRecent(mig.before))
             ELSE Others(lru, mig.key) = Others(mig.before, mig.key)

\* C33 witness: a put of a new key into a full cache removed an entry that
\* was put later than the entry that stayed (a get had touched that one
\* since)
C33_Witness ==
    /\ mig.op = "put"
    /\ mig.key \notin KeysOf(mig.before)
    /\ Len(mig.before) = LruMaxSize
    /\ Len(lru) = LruMaxSize
    /\ \E gone \in KeysOf(mig.before) \ KeysOf(lru) :
          EntryOf(mig.before, gone).value > lru[1].value


----------------------------------------------------------------------------
(* Properties of the two cache layers (under Spec) *)

\* C34: whenever the timed_cache entry of load(domain, version) and
\* _contracts[domain][version] both exist, they hold the same Contract
\* instance.
C34_CacheLayersAgree ==
    \A i \in 1..Len(lru) :
        LET d == lru[i].key[2]
            v == lru[i].key[3]
        IN (d \in DOMAIN contracts /\ v \in DOMAIN contracts[d])
              => contracts[d][v] = lru[i].value

\* The steps of a call up to and including its failure
FailingPath(t) ==
    \/ pc[t] = "idle" /\ pc'[t] \in {"check", "idle"} /\ calls' = calls + 1
         /\ ret'[t].kind # "contract"
    \/ pc[t] = "check" /\ pc'[t] = "construct"
    \/ pc[t] # "idle" /\ pc'[t] = "idle" /\ ret'[t].kind = "error"

----------------------------------------------------------------------------
(* Further properties of migrate (under SpecMig) *)

\* C36: within one call of migrate no migration script is executed twice:
\* the list of executed scripts has no repeated entry.
C36_EachScriptAtMostOnce ==
    Migrated =>
        \A i \in 1..Len(mig.executed), j \in 1..Len(mig.executed) :
            mig.executed[i] = mig.executed[j] => i = j

\* C37: migrate never raises: every call returns a payload, whatever the
\* versions asked for and whatever schema and script files exist.
C37_MigrateNeverRaises == Migrated => (mig.returned /\ mig.raised = None)

----------------------------------------------------------------------------
(* Further properties of execute_with_migration (under SpecExec) *)

\* The call ended with ContractNotFoundError for the key (domain, version)
NotFoundFor(version) ==
    /\ mig.result.kind = "error"
    /\ mig.result.type = "ContractNotFoundError"
    /\ mig.result.version = version

----------------------------------------------------------------------------
(* Further properties of DynamicContract.execute (under SpecContract) *)

\* C39: in every result execute returns, a field whose configuration has a
\* min and/or a max holds a number that is not below the min and not above
\* the max, wherever the number came from.
C39_ValidatedDataWithinBounds ==
    ContractReturned =>
        \A f \in FieldsOf :
            mig.ran.result.validated_data[f] # None =>
                /\ "min" \in DOMAIN FieldConfig(f)
                      => mig.ran.result.validated_data[f][1] >= FieldConfig(f)["min"]
                /\ "max" \in DOMAIN FieldConfig(f)
                      => mig.ran.result.validated_data[f][1] <= FieldConfig(f)["max"]

----------------------------------------------------------------------------
(* Properties of the rate limiter (under SpecLimiter) *)

\* The requests of a client that were forwarded at a time from lo to hi
ForwardedIn(key, lo, hi, upto) ==
    {j \in 1..upto : /\ mig.log[j].key = key
                     /\ mig.log[j].forwarded
                     /\ lo <= mig.log[j].time
                     /\ mig.log[j].time <= hi}

\* C40: for every client key, the requests the middleware forwarded with
\* arrival times inside any window of RateLimitPeriod seconds number at most
\* RateLimitCalls; a request is refused, with status 429 and without being
\* forwarded, exactly when RateLimitCalls requests of the same client were
\* forwarded in the period up to its arrival, whatever other clients sent;
\* and a client's window holds the times of forwarded requests only.
C40_AtMostCallsPerPeriod ==
    mig.op = "dispatch" =>
        /\ \A k \in DOMAIN mig.clients, a \in 0..MaxTime :
              Cardinality(ForwardedIn(k, a, a + RateLimitPeriod, Len(mig.log)))
                 <= RateLimitCalls
        /\ \A i \in 1..Len(mig.log) :
              LET before == ForwardedIn(mig.log[i].key,
                                        mig.log[i].time - RateLimitPeriod,
                                        mig.log[i].time, i - 1)
              IN /\ mig.log[i].forwarded <=> Cardinality(before) < RateLimitCalls
                 /\ mig.log[i].forwarded <=> mig.log[i].status # <<429>>
        /\ \A k \in DOMAIN mig.clients :
              /\ Len(mig.clients[k]) <= RateLimitCalls
              /\ \A n \in 1..Len(mig.clients[k]) :
                    Cardinality({m \in 1..Len(mig.clients[k]) :
                                    mig.clients[k][m] = mig.clients[k][n]})
                    = Cardinality(ForwardedIn(k, mig.clients[k][n],
                                              mig.clients[k][n], Len(mig.log)))

\* C40 happens: a client had RateLimitCalls requests forwarded, its next
\* request was refused with 429 while that of another client, at the same
\* time, was forwarded, and once the period had passed it was forwarded again.
C40_Witness ==
    /\ mig.op = "dispatch"
    /\ \E i \in 1..Len(mig.log), j \in 1..Len(mig.log), n \in 1..Len(mig.log) :
          /\ i < n
          /\ mig.log[i].key = mig.log[n].key
          /\ mig.log[i].status = <<429>>
          /\ mig.log[n].forwarded
          /\ mig.log[j].key # mig.log[i].key
          /\ mig.log[j].time = mig.log[i].time
          /\ mig.log[j].forwarded

====
